---- MODULE Spec2Model ----
(***************************************************************************)
(* A model of the optimisation backend of the AI optimism toolkit:         *)
(*   - ConfigurableModifier.__call__   (services/toolkit_adapters.py)      *)
(*   - safe_eval / eval_node           (routers/evaluate.py)               *)
(*   - make_violation_evaluator, make_objective_func and the weighted      *)
(*     objective registration          (services/optimization_service.py)  *)
(*                                                                         *)
(* Numbers.  Python floats are modelled on a fixed-point grid: a value v   *)
(* is the integer v * Scale, so with Scale = 2 the grid holds the halves.  *)
(* "One" is the grid value of 1.0.                                         *)
(***************************************************************************)
EXTENDS Integers, Sequences, FiniteSets, TLC

VARIABLES
    \* ---- ConfigurableModifier (toolkit_adapters.py) ----
    variable_name,      \* self.variable_name
    variable_config,    \* self.variable_config: [type, min, max, ncat]
    strategy,           \* self.strategy: [type, sigma, stepSize]
    direction,          \* self.direction
    design,             \* the design the modifier is applied to next
    applied,            \* [called, input, output] of the last __call__
    \* ---- safe_eval (routers/evaluate.py) ----
    expression,         \* the parsed expression handed to safe_eval
    bindings,           \* the variables mapping handed to safe_eval
    evaluated,          \* whether safe_eval has run
    result,             \* the outcome of safe_eval
    violation,          \* the score of the violation objective of expression
    \* ---- objectives (services/optimization_service.py) ----
    goal,               \* goal of the objective built by make_objective_func
    obs_min,            \* its running observed minimum
    obs_max,            \* its running observed maximum
    n_constraints,      \* the number of violation objectives registered
    iteration,          \* the design iteration evaluated last
    previous,           \* the design iteration evaluated before it
    \* ---- run_optimization (services/optimization_service.py) ----
    population_size,    \* config.population_size
    max_iterations,     \* config.max_iterations
    constraints,        \* problem.constraints, parsed
    phase,              \* Seeding, Seeded, Iterating, Terminated, Aborted
    seed_idx,           \* the seed slot being filled
    attempt,            \* the attempts made for it so far
    attempt_satisfied,  \* all_constraints_satisfied of the last attempt
    seed_designs,       \* the seed designs, each with how it was produced
    population,         \* the optimizer's design population
    iterations,         \* the iterations the optimizer has completed
    applications,       \* the modifier applications so far
    mutations,          \* the population mutation attempts so far
    candidate,          \* the design a modifier returned, not yet inserted
    results,            \* the "results" of the response
    best_design,        \* the "best_design" of the response
    \* ---- run_optimization: constraints into objectives and weights ----
    constraint_texts,   \* the expressions of problem.constraints, as characters
    n_objectives,       \* len(problem.objectives)
    wiring,             \* Analyzing, Wired, Raised
    constraint_i,       \* the constraints analysed so far
    constraint_weights, \* violation name -> {modifier name -> weight}
    objective_function, \* the objectives added by weight, in order
    weights_map,        \* modifier name -> {objective name -> weight}
    \* ---- evaluate_expressions (routers/evaluate.py) ----
    request,            \* the EvaluationRequest: expressions and variables
    results_so_far,     \* the list results of the handler
    batch,              \* Evaluating, Responded
    response,           \* the EvaluationResponse returned
    \* ---- add_message (routers/sessions.py) ----
    sessions,           \* the Session rows, by id: mode, status, readyToFormalize
    messages,           \* the Message rows, in the order they were stored
    last_call           \* the last add_message request and how it ended

modvars == <<variable_name, variable_config, strategy, direction, design, applied>>

evalvars == <<expression, bindings, evaluated, result, violation>>

objvars == <<goal, obs_min, obs_max, n_constraints, iteration, previous>>

runvars ==
    <<population_size, max_iterations, constraints, phase, seed_idx, attempt,
      attempt_satisfied, seed_designs, population, iterations, applications, mutations, candidate,
      results, best_design>>

wirevars ==
    <<constraint_texts, n_objectives, wiring, constraint_i, constraint_weights,
      objective_function, weights_map>>

(* the state of the parts that follow the optimizer's *)
batchvars == <<request, results_so_far, batch, response>>

sessvars == <<sessions, messages, last_call>>

restvars == <<wirevars, batchvars, sessvars>>

vars == <<modvars, evalvars, objvars, runvars, restvars>>

----------------------------------------------------------------------------
(* Bounds of the model *)

Scale == 2          \* grid points per unit
LowBound == 1       \* variable bounds range over -LowBound .. HighBound
HighBound == 1
MaxDelta == 3       \* |random.gauss| draws, in grid points
MaxCats == 3        \* categories per categorical variable
ValueCap == 3       \* a modifier is applied only to |value| <= ValueCap units

One == Scale

Abs(v) == IF v < 0 THEN -v ELSE v

PyMax(a, b) == IF b > a THEN b ELSE a      \* max(a, b)
PyMin(a, b) == IF b < a THEN b ELSE a      \* min(a, b)

IsInteger(v) == v % Scale = 0

(* round(x): to the nearest integer, ties to the even one *)
PyRound(v) ==
    LET q == v \div Scale
        r == v - q * Scale
    IN  IF 2 * r < Scale THEN q * Scale
        ELSE IF 2 * r > Scale THEN (q + 1) * Scale
        ELSE IF q % 2 = 0 THEN q * Scale ELSE (q + 1) * Scale

----------------------------------------------------------------------------
(* Designs: tuple(sorted(d.items())) over the variable names *)

VarNames == <<"x", "y">>

NameSet == {VarNames[i] : i \in 1..Len(VarNames)}

NameIndex(n) == CHOOSE i \in 1..Len(VarNames) : VarNames[i] = n

(* dict(design): the mapping of a tuple of (key, value) pairs *)
dict(t) ==
    [n \in {t[i][1] : i \in 1..Len(t)} |->
        LET i == CHOOSE j \in 1..Len(t) : t[j][1] = n /\
                     \A k \in 1..Len(t) : t[k][1] = n => k <= j
        IN  t[i][2]]

(* tuple(sorted(d.items())): the pairs of d in name order *)
RECURSIVE sorted_items_from(_, _)
sorted_items_from(d, i) ==
    IF i > Len(VarNames) THEN <<>>
    ELSE IF VarNames[i] \in DOMAIN d
         THEN <<(<<VarNames[i], d[VarNames[i]]>>)>> \o sorted_items_from(d, i + 1)
         ELSE sorted_items_from(d, i + 1)

sorted_items(d) == sorted_items_from(d, 1)

----------------------------------------------------------------------------
(* ConfigurableModifier *)

VariableTypes == {"continuous", "discrete", "categorical"}
StrategyTypes == {"gaussian", "uniform", "random_reset", "neighbor_step"}
Directions == {"increase", "decrease", "random"}

(* random.gauss(0, sigma): any real, none but 0 when sigma = 0 *)
GaussDraws(sigma) == IF sigma = 0 THEN {0} ELSE (-MaxDelta)..MaxDelta

(* random.uniform(a, b): a + (b - a) * random(), either order of a and b *)
UniformDraws(a, b) == IF a <= b THEN a..b ELSE b..a

(* the random draws one application can make, by strategy type: r.g1 is
   the draw behind delta, r.g2 the draw of the random direction (a draw whose
   value the direction leaves unread is fixed to 0), r.reset the resample,
   r.choice the random.choice([-1, 1]) *)
NoDraw == [g1 |-> 0, g2 |-> 0, reset |-> 0, choice |-> 1]

Draws(strat, config, dir) ==
    CASE strat.type = "gaussian" ->
            IF dir \in {"increase", "decrease"}
            THEN {[NoDraw EXCEPT !.g1 = a] : a \in GaussDraws(strat.sigma)}
            ELSE {[NoDraw EXCEPT !.g2 = b] : b \in GaussDraws(strat.sigma)}
      [] strat.type = "uniform" ->
            IF dir \in {"increase", "decrease"}
            THEN {[NoDraw EXCEPT !.g1 = a] : a \in UniformDraws(0, strat.stepSize)}
            ELSE {[NoDraw EXCEPT !.g2 = b] :
                     b \in UniformDraws(-strat.stepSize, strat.stepSize)}
      [] strat.type = "random_reset" ->
            IF config.type = "categorical"
            THEN {[NoDraw EXCEPT !.reset = i * One] : i \in 0..(config.ncat - 1)}
            ELSE {[NoDraw EXCEPT !.reset = v] : v \in UniformDraws(config.min, config.max)}
      [] strat.type = "neighbor_step" ->
            {[NoDraw EXCEPT !.choice = c] : c \in {-1, 1}}
      [] OTHER -> {NoDraw}

(* lines 33-91: the value before clamping *)
new_value_of(strat, config, dir, current_value, r) ==
    CASE strat.type = "gaussian" ->
            LET delta == Abs(r.g1)
            IN  IF dir = "increase" THEN current_value + delta
                ELSE IF dir = "decrease" THEN current_value - delta
                ELSE current_value + r.g2
      [] strat.type = "uniform" ->
            LET delta == Abs(r.g1)
            IN  IF dir = "increase" THEN current_value + delta
                ELSE IF dir = "decrease" THEN current_value - delta
                ELSE current_value + r.g2
      [] strat.type = "random_reset" ->
            IF config.type = "categorical"
            THEN (IF config.ncat > 0 THEN r.reset ELSE current_value)
            ELSE r.reset
      [] strat.type = "neighbor_step" ->
            IF config.type = "categorical"
            THEN (IF config.ncat > 1
                  THEN (current_value + r.choice * One) % (config.ncat * One)
                  ELSE current_value)
            ELSE LET step == IF dir = "increase" THEN 1
                             ELSE IF dir = "decrease" THEN -1
                             ELSE r.choice
                 IN  current_value + step * One
      [] OTHER -> current_value

(* lines 93-100: clamp to bounds for numerical types, round discrete ones *)
clamp_and_round(config, new_value) ==
    IF config.type \in {"continuous", "discrete"}
    THEN LET clamped == PyMax(config.min, PyMin(config.max, new_value))
         IN  IF config.type = "discrete" THEN PyRound(clamped) ELSE clamped
    ELSE new_value

(* a variant of __call__ that takes an absent variable to have the value 0
   and writes the modified value into the result *)
call_default(name, strat, config, dir, dsg, r) ==
    LET design_dict == dict(dsg)
        current_value == IF name \in DOMAIN design_dict THEN design_dict[name] ELSE 0
        new_value == clamp_and_round(config,
                         new_value_of(strat, config, dir, current_value, r))
        new_design == [n \in DOMAIN design_dict \cup {name} |->
                          IF n = name THEN new_value ELSE design_dict[n]]
    IN  sorted_items(new_design)

(* a variant of __call__ that returns tuple(new_design.items()): the pairs
   in the order of the argument *)
call_unsorted(name, strat, config, dir, dsg, r) ==
    LET design_dict == dict(dsg)
    IN  IF name \notin DOMAIN design_dict
        THEN dsg
        ELSE LET new_value == clamp_and_round(config,
                                  new_value_of(strat, config, dir, design_dict[name], r))
             IN  [i \in 1..Len(dsg) |->
                     IF dsg[i][1] = name THEN <<name, new_value>> ELSE dsg[i]]

(* ConfigurableModifier.__call__ with the random draws r *)
call(name, strat, config, dir, dsg, r) ==
    LET design_dict == dict(dsg)
    IN  IF name \notin DOMAIN design_dict
        THEN sorted_items(design_dict)
        ELSE LET current_value == design_dict[name]
                 new_value == clamp_and_round(config,
                                  new_value_of(strat, config, dir, current_value, r))
                 new_design == [design_dict EXCEPT ![name] = new_value]
             IN  sorted_items(new_design)

----------------------------------------------------------------------------
(* safe_eval (routers/evaluate.py).

   Values.  Every Python value is a record [t, n, s, e]: t is the type, n the
   number (or 1/0 for True/False), s the name of a function, e the elements
   of a list or a tuple.  Numbers of the evaluator are integral; an int and a
   float of the same magnitude differ in t only. *)

IntV(n) == [t |-> "int", n |-> n, s |-> "", e |-> <<>>]
FloatV(n) == [t |-> "float", n |-> n, s |-> "", e |-> <<>>]
BoolV(b) == [t |-> "bool", n |-> IF b THEN 1 ELSE 0, s |-> "", e |-> <<>>]
NoneV == [t |-> "none", n |-> 0, s |-> "", e |-> <<>>]
FnV(f) == [t |-> "fn", n |-> 0, s |-> f, e |-> <<>>]
ListV(e) == [t |-> "list", n |-> 0, s |-> "", e |-> e]
TupleV(e) == [t |-> "tuple", n |-> 0, s |-> "", e |-> e]

IsNum(v) == v.t \in {"int", "float", "bool"}

(* bool(v): Python's truth value *)
Truthy(v) ==
    CASE IsNum(v) -> v.n # 0
      [] v.t = "none" -> FALSE
      [] v.t = "fn" -> TRUE
      [] OTHER -> Len(v.e) > 0

(* the type of an arithmetic result: float when an operand is a float *)
NumV(a, b, n) == IF a.t = "float" \/ b.t = "float" THEN FloatV(n) ELSE IntV(n)

(* AST nodes.  Every node is a record [node, ops, id, value, kids]: node is
   the class of the ast node, ops its operator classes, id the identifier of
   a Name, value the value of a Constant, kids its child nodes in the order
   of the ast fields. *)
Node(class, ops, id, value, kids) ==
    [node |-> class, ops |-> ops, id |-> id, value |-> value, kids |-> kids]

Constant(v) == Node("Constant", <<>>, "", v, <<>>)
Name(id) == Node("Name", <<>>, id, NoneV, <<>>)
BinOp(left, op, right) == Node("BinOp", <<op>>, "", NoneV, <<left, right>>)
UnaryOp(op, operand) == Node("UnaryOp", <<op>>, "", NoneV, <<operand>>)
Compare(left, ops, comparators) == Node("Compare", ops, "", NoneV, <<left>> \o comparators)
IfExp(test, body, orelse) == Node("IfExp", <<>>, "", NoneV, <<test, body, orelse>>)
Call(func, args) == Node("Call", <<>>, "", NoneV, <<func>> \o args)
List(elts) == Node("List", <<>>, "", NoneV, elts)
Tuple(elts) == Node("Tuple", <<>>, "", NoneV, elts)
BoolOp(op, values) == Node("BoolOp", <<op>>, "", NoneV, values)
Attribute(value) == Node("Attribute", <<>>, "", NoneV, <<value>>)
Expression(body) == Node("Expression", <<>>, "", NoneV, <<body>>)

(* lines 33-49: the keys of SAFE_OPERATORS *)
SAFE_OPERATORS ==
    {"Add", "Sub", "Mult", "Div", "FloorDiv", "Mod", "Pow", "USub", "UAdd",
     "Eq", "NotEq", "Lt", "LtE", "Gt", "GtE"}

(* lines 52-65: the keys of SAFE_FUNCTIONS *)
SAFE_FUNCTIONS ==
    {"abs", "min", "max", "sum", "round", "pow", "sqrt", "exp", "log",
     "sin", "cos", "tan"}

(* The outcome of an evaluation: a value or a raised exception, with what
   the evaluation did on the way: the nodes eval_node was applied to, the
   functions it invoked and the names it read (with the value read). *)
Ok(v) == [ok |-> TRUE, val |-> v, err |-> "", visited |-> <<>>, calls |-> <<>>, reads |-> <<>>]
Raise(e) == [ok |-> FALSE, val |-> NoneV, err |-> e, visited |-> <<>>, calls |-> <<>>, reads |-> <<>>]

(* r2 evaluated after r1 *)
After(r1, r2) ==
    [r2 EXCEPT !.visited = r1.visited \o @, !.calls = r1.calls \o @,
               !.reads = r1.reads \o @]

Visit(node, r) == [r EXCEPT !.visited = <<node>> \o @]

(* operator.add, sub, mul, floordiv, mod, neg, pos, eq, ne, lt, le, gt, ge on
   the values of the model *)
apply_operator(op, a, b) ==
    CASE op \in {"Add", "Sub", "Mult", "FloorDiv", "Mod"} ->
            IF ~(IsNum(a) /\ IsNum(b)) THEN Raise("TypeError")
            ELSE IF op \in {"FloorDiv", "Mod"} /\ b.n = 0 THEN Raise("ZeroDivisionError")
            ELSE Ok(NumV(a, b, CASE op = "Add" -> a.n + b.n
                                 [] op = "Sub" -> a.n - b.n
                                 [] op = "Mult" -> a.n * b.n
                                 [] op = "FloorDiv" -> a.n \div b.n
                                 [] op = "Mod" -> a.n - b.n * (a.n \div b.n)))
      [] op \in {"USub", "UAdd"} ->
            IF ~IsNum(a) THEN Raise("TypeError")
            ELSE Ok(NumV(a, a, IF op = "USub" THEN -a.n ELSE a.n))
      [] op \in {"Eq", "NotEq"} ->
            LET eq == IF IsNum(a) /\ IsNum(b) THEN a.n = b.n ELSE a = b
            IN  Ok(BoolV(IF op = "Eq" THEN eq ELSE ~eq))
      [] op \in {"Lt", "LtE", "Gt", "GtE"} ->
            IF ~(IsNum(a) /\ IsNum(b)) THEN Raise("TypeError")
            ELSE Ok(BoolV(CASE op = "Lt" -> a.n < b.n
                            [] op = "LtE" -> a.n <= b.n
                            [] op = "Gt" -> a.n > b.n
                            [] op = "GtE" -> a.n >= b.n))
      [] OTHER -> Raise("Unmodelled")    \* Div and Pow leave the integers

(* max(...) and min(...): the first greatest / least item *)
RECURSIVE extremum(_, _, _)
extremum(best, items, wantMax) ==
    IF items = <<>> THEN Ok(best)
    ELSE LET item == Head(items)
         IN  IF ~(IsNum(item) /\ IsNum(best)) THEN Raise("TypeError")
             ELSE IF (wantMax /\ item.n > best.n) \/ (~wantMax /\ item.n < best.n)
                  THEN extremum(item, Tail(items), wantMax)
                  ELSE extremum(best, Tail(items), wantMax)

(* sum(iterable, start) *)
RECURSIVE summation(_, _)
summation(acc, items) ==
    IF items = <<>> THEN Ok(acc)
    ELSE LET next == apply_operator("Add", acc, Head(items))
         IN  IF ~next.ok THEN next ELSE summation(next.val, Tail(items))

IsIterable(v) == v.t \in {"list", "tuple"}

(* a call of one of the functions of SAFE_FUNCTIONS on the values args *)
builtin(f, args) ==
    CASE f = "abs" ->
            IF Len(args) # 1 \/ ~IsNum(args[1]) THEN Raise("TypeError")
            ELSE Ok(NumV(args[1], args[1], Abs(args[1].n)))
      [] f \in {"max", "min"} ->
            IF Len(args) = 0 THEN Raise("TypeError")
            ELSE IF Len(args) = 1 /\ ~IsIterable(args[1]) THEN Raise("TypeError")
            ELSE LET items == IF Len(args) = 1 THEN args[1].e ELSE args
                 IN  IF items = <<>> THEN Raise("ValueError")
                     ELSE extremum(Head(items), Tail(items), f = "max")
      [] f = "sum" ->
            IF Len(args) \notin {1, 2} \/ ~IsIterable(args[1]) THEN Raise("TypeError")
            ELSE summation(IF Len(args) = 2 THEN args[2] ELSE IntV(0), args[1].e)
      [] OTHER -> Raise("Unmodelled")    \* the floating-point functions

(* line 139: the call of func, recorded as an invocation of func *)
invoke(f, args) == [builtin(f, args) EXCEPT !.calls = <<f>>]

RECURSIVE eval_node(_, _)
RECURSIVE eval_seq(_, _)
RECURSIVE compare_links(_, _, _, _)

(* [eval_node(n) for n in nodes]: left to right, up to the first exception *)
eval_seq(nodes, variables) ==
    IF nodes = <<>>
    THEN [ok |-> TRUE, vals |-> <<>>, err |-> "", visited |-> <<>>,
          calls |-> <<>>, reads |-> <<>>]
    ELSE LET h == eval_node(Head(nodes), variables)
         IN  IF ~h.ok
             THEN [ok |-> FALSE, vals |-> <<>>, err |-> h.err, visited |-> h.visited,
                   calls |-> h.calls, reads |-> h.reads]
             ELSE LET t == eval_seq(Tail(nodes), variables)
                  IN  [ok |-> t.ok, vals |-> <<h.val>> \o t.vals, err |-> t.err,
                       visited |-> h.visited \o t.visited,
                       calls |-> h.calls \o t.calls,
                       reads |-> h.reads \o t.reads]

(* eval_Name with a lookup that yields None for an unknown name *)
eval_Name_default(node, variables) ==
    IF node.id \in DOMAIN variables
    THEN [Ok(variables[node.id]) EXCEPT
             !.reads = <<[id |-> node.id, val |-> variables[node.id]]>>]
    ELSE IF node.id \in SAFE_FUNCTIONS
    THEN [Ok(FnV(node.id)) EXCEPT !.reads = <<[id |-> node.id, val |-> FnV(node.id)]>>]
    ELSE [Ok(NoneV) EXCEPT !.reads = <<[id |-> node.id, val |-> NoneV]>>]

(* eval_Name with a lookup that falls back to the builtins of the host *)
eval_Name_builtins(node, variables) ==
    IF node.id \in DOMAIN variables
    THEN [Ok(variables[node.id]) EXCEPT
             !.reads = <<[id |-> node.id, val |-> variables[node.id]]>>]
    ELSE [Ok(FnV(node.id)) EXCEPT !.reads = <<[id |-> node.id, val |-> FnV(node.id)]>>]

(* lines 84-91: ast.Name *)
eval_Name(node, variables) ==
    IF node.id \in DOMAIN variables
    THEN [Ok(variables[node.id]) EXCEPT
             !.reads = <<[id |-> node.id, val |-> variables[node.id]]>>]
    ELSE IF node.id \in SAFE_FUNCTIONS
    THEN [Ok(FnV(node.id)) EXCEPT !.reads = <<[id |-> node.id, val |-> FnV(node.id)]>>]
    ELSE Raise("NameError")

(* lines 93-101: ast.BinOp *)
eval_BinOp(node, variables) ==
    LET left == eval_node(node.kids[1], variables)
    IN  IF ~left.ok THEN left
        ELSE LET right == eval_node(node.kids[2], variables)
             IN  IF ~right.ok THEN After(left, right)
                 ELSE IF node.ops[1] \in SAFE_OPERATORS
                 THEN After(left, After(right,
                          apply_operator(node.ops[1], left.val, right.val)))
                 ELSE After(left, After(right, Raise("ValueError")))

(* lines 103-110: ast.UnaryOp *)
eval_UnaryOp(node, variables) ==
    LET operand == eval_node(node.kids[1], variables)
    IN  IF ~operand.ok THEN operand
        ELSE IF node.ops[1] \in SAFE_OPERATORS
        THEN After(operand, apply_operator(node.ops[1], operand.val, operand.val))
        ELSE After(operand, Raise("ValueError"))

(* compare_links without "left = right": every link against the first operand *)
compare_links_unchained(left, ops, comparators, variables) ==
    IF ops = <<>> \/ comparators = <<>> THEN Ok(BoolV(TRUE))
    ELSE LET right == eval_node(Head(comparators), variables)
         IN  IF ~right.ok THEN right
             ELSE IF Head(ops) \in SAFE_OPERATORS
             THEN LET holds == apply_operator(Head(ops), left, right.val)
                  IN  IF ~holds.ok THEN After(right, holds)
                      ELSE IF ~Truthy(holds.val) THEN After(right, Ok(BoolV(FALSE)))
                      ELSE After(right, compare_links(left, Tail(ops),
                                                     Tail(comparators), variables))
             ELSE After(right, Raise("ValueError"))

(* lines 115-124: the loop over zip(node.ops, node.comparators) *)
compare_links(left, ops, comparators, variables) ==
    IF ops = <<>> \/ comparators = <<>> THEN Ok(BoolV(TRUE))
    ELSE LET right == eval_node(Head(comparators), variables)
         IN  IF ~right.ok THEN right
             ELSE IF Head(ops) \in SAFE_OPERATORS
             THEN LET holds == apply_operator(Head(ops), left, right.val)
                  IN  IF ~holds.ok THEN After(right, holds)
                      ELSE IF ~Truthy(holds.val) THEN After(right, Ok(BoolV(FALSE)))
                      ELSE After(right, compare_links(right.val, Tail(ops),
                                                     Tail(comparators), variables))
             ELSE After(right, Raise("ValueError"))

(* lines 112-124: ast.Compare *)
eval_Compare(node, variables) ==
    LET left == eval_node(node.kids[1], variables)
    IN  IF ~left.ok THEN left
        ELSE After(left, compare_links(left.val, node.ops, Tail(node.kids), variables))

(* lines 126-132: ast.IfExp *)
eval_IfExp(node, variables) ==
    LET condition == eval_node(node.kids[1], variables)
    IN  IF ~condition.ok THEN condition
        ELSE IF Truthy(condition.val)
        THEN After(condition, eval_node(node.kids[2], variables))
        ELSE After(condition, eval_node(node.kids[3], variables))

callable(v) == v.t = "fn"

(* lines 134-141: ast.Call *)
eval_Call(node, variables) ==
    LET func == eval_node(node.kids[1], variables)
    IN  IF ~func.ok THEN func
        ELSE LET args == eval_seq(Tail(node.kids), variables)
             IN  IF ~args.ok THEN After(func, [Raise(args.err) EXCEPT
                                      !.visited = args.visited, !.calls = args.calls,
                                      !.reads = args.reads])
                 ELSE LET done == [Ok(NoneV) EXCEPT
                                      !.visited = args.visited, !.calls = args.calls,
                                      !.reads = args.reads]
                      IN  IF callable(func.val)
                          THEN After(func, After(done, invoke(func.val.s, args.vals)))
                          ELSE After(func, After(done, Raise("ValueError")))

(* lines 143-149: ast.List and ast.Tuple *)
eval_elts(node, variables) ==
    LET elts == eval_seq(node.kids, variables)
        v == IF node.node = "List" THEN ListV(elts.vals) ELSE TupleV(elts.vals)
    IN  [(IF elts.ok THEN Ok(v) ELSE Raise(elts.err)) EXCEPT
            !.visited = elts.visited, !.calls = elts.calls, !.reads = elts.reads]

(* eval_node without its final else: the function falls off its end *)
eval_unsupported_none(node, variables) == Ok(NoneV)

(* lines 151-152: any other node *)
eval_unsupported(node, variables) == Raise("ValueError")

(* lines 77-152: eval_node *)
eval_node(node, variables) ==
    Visit(node,
        CASE node.node = "Expression" -> eval_node(node.kids[1], variables)
          [] node.node = "Constant" -> Ok(node.value)
          [] node.node = "Name" -> eval_Name(node, variables)
          [] node.node = "BinOp" -> eval_BinOp(node, variables)
          [] node.node = "UnaryOp" -> eval_UnaryOp(node, variables)
          [] node.node = "Compare" -> eval_Compare(node, variables)
          [] node.node = "IfExp" -> eval_IfExp(node, variables)
          [] node.node = "Call" -> eval_Call(node, variables)
          [] node.node \in {"List", "Tuple"} -> eval_elts(node, variables)
          [] OTHER -> eval_unsupported(node, variables))

(* lines 156-164: the conversion of the result of eval_node *)
convert_result(value) ==
    IF value.t = "bool" THEN FloatV(value.n)
    ELSE IF value.t \in {"int", "float"} THEN FloatV(value.n)
    ELSE value

(* the text that ast.parse rejects *)
Unparsable == Node("SyntaxError", <<>>, "", NoneV, <<>>)

(* lines 68-167: safe_eval; an exception of any kind leaves as the
   ValueError "Evaluation error: ..." *)
safe_eval(expr, variables) ==
    IF expr = Unparsable THEN Raise("SyntaxError")
    ELSE LET r == eval_node(Expression(expr), variables)
         IN  IF r.ok THEN [r EXCEPT !.val = convert_result(r.val)] ELSE r

(* make_violation_evaluator with an except branch that returns 0.0 *)
make_violation_evaluator_swallow(r) ==
    IF r.ok
    THEN (IF Truthy(r.val) THEN 0 ELSE One)
    ELSE 0

(* lines 238-248: evaluate(design) of make_violation_evaluator(expr), where
   r is the outcome of safe_eval(expr, d); scores are grid values *)
make_violation_evaluator(r) ==
    IF r.ok
    THEN (IF Truthy(r.val) THEN 0 ELSE One)
    ELSE One

----------------------------------------------------------------------------
(* The expressions and bindings the evaluator is checked on *)

(* subexpressions: literals, names (x is always bound, y sometimes, abs is
   a whitelisted function that a binding may shadow, eval is a builtin of
   the host language), a call, a comparison, and an unsupported node *)
SubExprs ==
    {Constant(IntV(0)), Constant(IntV(1)), Constant(IntV(2)), Constant(NoneV),
     Name("x"), Name("y"), Name("abs"), Name("eval"),
     Call(Name("abs"), <<Name("x")>>),
     Compare(Name("x"), <<"Lt">>, <<Constant(IntV(1))>>),
     Attribute(Name("x"))}

ChainOperands ==
    {Constant(IntV(0)), Constant(IntV(1)), Constant(IntV(2)),
     Name("x"), Name("y"), Call(Name("abs"), <<Name("x")>>), Attribute(Name("x"))}

ListElts == {Constant(IntV(1)), Constant(NoneV), Name("x"), Name("y"), Name("abs")}

BinOps == {"Add", "Sub", "FloorDiv", "BitOr"}
UnaryOps == {"USub", "UAdd", "Not"}
CompareOps == {"Lt", "GtE", "Eq", "In"}
ChainOps == {"Lt", "Eq", "In"}

SeqsUpTo2(S) == {<<>>} \cup {<<a>> : a \in S} \cup {<<a, b>> : a \in S, b \in S}

Callees == SubExprs \cup {Name("max"), Name("sum")}

Arguments ==
    SeqsUpTo2(SubExprs) \cup {<<List(e)>> : e \in SeqsUpTo2(ListElts)}
        \cup {<<Tuple(e)>> : e \in SeqsUpTo2(ListElts)}

Expressions ==
    SubExprs
    \cup {Unparsable}
    \cup {BinOp(a, op, b) : a \in SubExprs, op \in BinOps, b \in SubExprs}
    \cup {UnaryOp(op, a) : op \in UnaryOps, a \in SubExprs}
    \cup {Compare(a, <<op>>, <<b>>) : a \in SubExprs, op \in CompareOps, b \in SubExprs}
    \cup {Compare(a, <<op1, op2>>, <<b, c>>) :
             a \in ChainOperands, b \in ChainOperands, c \in ChainOperands,
             op1 \in ChainOps, op2 \in ChainOps}
    \cup {IfExp(t, a, b) : t \in SubExprs, a \in SubExprs, b \in SubExprs}
    \cup {Call(f, args) : f \in Callees, args \in Arguments}
    \cup {List(e) : e \in SeqsUpTo2(SubExprs)}
    \cup {Tuple(e) : e \in SeqsUpTo2(SubExprs)}
    \cup {BoolOp("And", <<a, b>>) : a \in SubExprs, b \in SubExprs}

XValues == {IntV(-1), IntV(0), FloatV(2)}

BindingMaps ==
    {[n \in {"x"} |-> v] : v \in XValues}
    \cup {[n \in {"x", "y"} |-> IF n = "x" THEN v ELSE IntV(1)] : v \in XValues}
    \cup {[n \in {"x", "abs"} |-> IF n = "x" THEN IntV(0) ELSE IntV(3)]}

NotEvaluated == Raise("NotEvaluated")

EvalInit ==
    /\ expression \in Expressions
    /\ bindings \in BindingMaps
    /\ evaluated = FALSE
    /\ result = NotEvaluated
    /\ violation = 0

EvalIdle ==
    /\ expression = Unparsable
    /\ bindings = [n \in {"x"} |-> IntV(0)]
    /\ evaluated = FALSE
    /\ result = NotEvaluated
    /\ violation = 0

(* one call of safe_eval(expression, bindings), and of the violation
   objective built for the same expression on the same design *)
Evaluate ==
    /\ ~evaluated
    /\ evaluated' = TRUE
    /\ result' = safe_eval(expression, bindings)
    /\ violation' = make_violation_evaluator(result')
    /\ UNCHANGED <<expression, bindings, modvars, objvars, runvars, restvars>>

EvalNext == Evaluate

----------------------------------------------------------------------------
(* Floats of the objectives: a rational n/d (d > 0, in lowest terms), one of
   the infinities, or nan; NoneF is Python's None *)

RECURSIVE GCD(_, _)
GCD(a, b) == IF b = 0 THEN a ELSE GCD(b, a % b)

Fin(n, d) ==
    LET s == IF d < 0 THEN -1 ELSE 1
        g == GCD(Abs(n), Abs(d))
    IN  [k |-> "fin", n |-> (s * n) \div g, d |-> (s * d) \div g]
Inf == [k |-> "inf", n |-> 0, d |-> 1]
NInf == [k |-> "ninf", n |-> 0, d |-> 1]
NaN == [k |-> "nan", n |-> 0, d |-> 1]
NoneF == [k |-> "none", n |-> 0, d |-> 1]

(* a < b; every comparison with nan is False *)
FLt(a, b) ==
    IF a.k = "nan" \/ b.k = "nan" THEN FALSE
    ELSE IF a.k = "inf" \/ b.k = "ninf" THEN FALSE
    ELSE IF a.k = "ninf" \/ b.k = "inf" THEN TRUE
    ELSE a.n * b.d < b.n * a.d

FGt(a, b) == FLt(b, a)

(* a - b *)
FSub(a, b) ==
    IF a.k = "nan" \/ b.k = "nan" THEN NaN
    ELSE IF a.k = "fin" /\ b.k = "fin" THEN Fin(a.n * b.d - b.n * a.d, a.d * b.d)
    ELSE IF a.k = b.k THEN NaN
    ELSE IF a.k = "inf" \/ b.k = "ninf" THEN Inf
    ELSE NInf

(* a / b for a divisor b > 0 *)
FDiv(a, b) ==
    IF a.k = "nan" \/ b.k = "nan" THEN NaN
    ELSE IF a.k = "fin" /\ b.k = "fin" THEN Fin(a.n * b.d, a.d * b.n)
    ELSE IF a.k = "fin" THEN Fin(0, 1)
    ELSE IF b.k = "fin" THEN a
    ELSE NaN

FMax(a, b) == IF FGt(b, a) THEN b ELSE a     \* max(a, b)
FMin(a, b) == IF FLt(b, a) THEN b ELSE a     \* min(a, b)

(* no clamp at all *)
clamp_none(normalized) == normalized

(* line 337: max(0.0, min(1.0, normalized)) *)
clamp(normalized) == FMax(Fin(0, 1), FMin(Fin(1, 1), normalized))

(* lines 305-306: the initial running bounds of make_objective_func *)
make_objective_func(init_min, init_max) ==
    [obs_min |-> IF init_min \notin {NoneF, Inf} THEN init_min ELSE Fin(0, 1),
     obs_max |-> IF init_max \notin {NoneF, NInf} THEN init_max ELSE Fin(1, 1)]

(* a failed evaluation scored as a tie *)
error_score_half == Fin(1, 2)

(* lines 316-317: the score when the expression raises *)
error_score == Fin(0, 1)

(* lines 326-334: min-max normalisation of raw_val, inverted for minimize *)
normalize(g, lo, hi, raw_val) ==
    LET normalized == IF FGt(hi, lo)
                      THEN FDiv(FSub(raw_val, lo), FSub(hi, lo))
                      ELSE Fin(1, 2)
    IN  IF g = "minimize" THEN FSub(Fin(1, 1), normalized) ELSE normalized

(* the score taken from the bounds as they were before the raw value *)
evaluate_stale(g, lo, hi, o) ==
    IF ~o.ok
    THEN [score |-> error_score, obs_min |-> lo, obs_max |-> hi]
    ELSE [score |-> clamp(normalize(g, lo, hi, o.raw)),
          obs_min |-> IF FLt(o.raw, lo) THEN o.raw ELSE lo,
          obs_max |-> IF FGt(o.raw, hi) THEN o.raw ELSE hi]

(* lines 308-338: evaluate(design) of make_objective_func, where o is the
   outcome of float(safe_eval(expr, design_dict)): [ok, raw]; the result is
   the score with the running bounds after the call *)
evaluate(g, lo, hi, o) ==
    IF ~o.ok
    THEN [score |-> error_score, obs_min |-> lo, obs_max |-> hi]
    ELSE LET raw_val == o.raw
             lo2 == IF FLt(raw_val, lo) THEN raw_val ELSE lo
             hi2 == IF FGt(raw_val, hi) THEN raw_val ELSE hi
         IN  [score |-> clamp(normalize(g, lo2, hi2, raw_val)),
              obs_min |-> lo2, obs_max |-> hi2]

(* line 285: the weight of a violation objective *)
VIOLATION_WEIGHT == 10

(* line 344: the weight of an ordinary objective *)
OBJECTIVE_WEIGHT == 1

RECURSIVE Sum(_)
Sum(scores) == IF scores = <<>> THEN 0 ELSE Head(scores) + Sum(Tail(scores))

(* the aggregate score of the Objective Function: the weighted sum of the
   per-objective scores, VIOLATION_WEIGHT * (v1 + ... + vn) +
   OBJECTIVE_WEIGHT * score, for the grid values vi and the float score *)
aggregate(violations, score) ==
    Fin(VIOLATION_WEIGHT * Sum(violations) * score.d + OBJECTIVE_WEIGHT * score.n * One,
        One * score.d)

----------------------------------------------------------------------------
(* The objective function as a state machine: run_optimization registers
   n_constraints violation objectives and one objective built by
   make_objective_func; the optimizer then evaluates one design after the
   other through all of them. *)

MaxRaw == 1             \* finite raw values and estimates are -MaxRaw..MaxRaw
ConstraintCounts == 0..2    \* the problem has no, one or two constraints

RawValues == {Fin(n, 1) : n \in (-MaxRaw)..MaxRaw} \cup {Inf, NInf, NaN}

InitEstimates == RawValues \cup {NoneF}

(* float(safe_eval(expr, design_dict)): a float, or an exception *)
ObjectiveOutcomes ==
    {[ok |-> TRUE, raw |-> v] : v \in RawValues} \cup {[ok |-> FALSE, raw |-> NaN]}

(* safe_eval(constraint, d): true, false, or an exception *)
ConstraintOutcomes == {Ok(FloatV(1)), Ok(FloatV(0)), Raise("NameError")}

NoIteration ==
    [evaluated |-> FALSE, repeated |-> FALSE, outcome |-> [ok |-> FALSE, raw |-> NaN],
     violations |-> <<>>, satisfied |-> FALSE, objective |-> Fin(0, 1),
     score |-> Fin(0, 1)]

(* what the population keeps of an iteration: whether its design satisfied
   every constraint, and its aggregate score *)
Kept(it) == [evaluated |-> it.evaluated, satisfied |-> it.satisfied, score |-> it.score]

ObjInit ==
    /\ goal \in {"minimize", "maximize"}
    /\ \E init_min \in InitEstimates, init_max \in InitEstimates :
          LET f == make_objective_func(init_min, init_max)
          IN  obs_min = f.obs_min /\ obs_max = f.obs_max
    /\ n_constraints \in ConstraintCounts
    /\ iteration = NoIteration
    /\ previous = Kept(NoIteration)

ObjIdle ==
    /\ goal = "maximize"
    /\ obs_min = Fin(0, 1)
    /\ obs_max = Fin(1, 1)
    /\ n_constraints = 0
    /\ iteration = NoIteration
    /\ previous = Kept(NoIteration)

(* lines 290-302: the estimates run_optimization builds an objective with,
   est_min <= est_max from estimate_bounds or from the seed designs, or
   (inf, -inf) when no seed design could be evaluated *)
EstimatedBounds ==
    {e \in [min : RawValues \ {NaN}, max : RawValues \ {NaN}] :
        (e.min = Inf /\ e.max = NInf) \/ ~FGt(e.min, e.max)}

(* an objective as run_optimization builds it *)
RunObjInit ==
    /\ goal \in {"minimize", "maximize"}
    /\ \E e \in EstimatedBounds :
          LET f == make_objective_func(e.min, e.max)
          IN  obs_min = f.obs_min /\ obs_max = f.obs_max
    /\ n_constraints \in ConstraintCounts
    /\ iteration = NoIteration
    /\ previous = Kept(NoIteration)

(* the objective function applied to one design: c[i] is the outcome of
   safe_eval on constraint i, o the outcome of the objective's expression;
   "repeated" records that the design is evaluated a second time in
   succession, the deterministic evaluator giving the same outcomes *)
EvaluateDesign ==
    \E c \in [1..n_constraints -> ConstraintOutcomes], o \in ObjectiveOutcomes :
        \E e \in {evaluate(goal, obs_min, obs_max, o)},
           violations \in {[i \in 1..n_constraints |-> make_violation_evaluator(c[i])]} :
            /\ obs_min' = e.obs_min
            /\ obs_max' = e.obs_max
            /\ iteration' =
                  [evaluated |-> TRUE,
                   repeated |-> /\ iteration.evaluated
                                /\ o = iteration.outcome
                                /\ violations = iteration.violations,
                   outcome |-> o, violations |-> violations,
                   satisfied |-> \A i \in 1..n_constraints : c[i].ok /\ Truthy(c[i].val),
                   objective |-> e.score,
                   score |-> aggregate(violations, e.score)]
            /\ previous' = Kept(iteration)
            /\ UNCHANGED <<goal, n_constraints, modvars, evalvars, runvars, restvars>>

ObjNext == EvaluateDesign

----------------------------------------------------------------------------
(* The modifier as a state machine: a configured modifier is applied to a
   design again and again, each result being the next input. *)

Bounds == (-LowBound * One)..(HighBound * One)

Configs ==
    {[type |-> t, min |-> lo, max |-> hi, ncat |-> 0] :
        t \in {"continuous", "discrete"},
        lo \in Bounds, hi \in Bounds} \cup
    {[type |-> "categorical", min |-> 0, max |-> 0, ncat |-> n] : n \in 1..MaxCats}

ValidConfig(c) == c.type = "categorical" \/ c.min <= c.max

(* the values a seed design gives the variable *)
DomainValues(c) ==
    IF c.type = "categorical" THEN {i * One : i \in 0..(c.ncat - 1)}
    ELSE c.min..c.max

Strategies ==
    {[type |-> t, sigma |-> One, stepSize |-> One] : t \in StrategyTypes}

(* the registration of run_optimization: numeric variables get the three
   directional modifiers, categorical ones a single 'random' modifier *)
RegisteredDirections(c) ==
    IF c.type \in {"continuous", "discrete"} THEN Directions ELSE {"random"}

(* the designs over the bound variable (value v, or absent) and the other *)
DesignsFor(name, c) ==
    LET other == CHOOSE n \in NameSet : n # name
    IN  {<<(<<name, v>>), (<<other, One>>)>> : v \in DomainValues(c)}
        \cup {<<(<<other, One>>), (<<name, v>>)>> : v \in DomainValues(c)}
        \cup {<<(<<other, One>>)>>}

NotCalled == [called |-> FALSE, input |-> <<>>, argument |-> <<>>, output |-> <<>>]

(* lines 23-26: the argument after the call.  dict(design) builds a new
   mapping and new_design is a copy of it; the write of line 102 goes to the
   copy, so the object the caller passed keeps its pairs. *)
argument_after(dsg, out) == dsg

ModInit ==
    /\ variable_name \in NameSet
    /\ variable_config \in {c \in Configs : ValidConfig(c)}
    /\ strategy \in Strategies
    /\ direction \in RegisteredDirections(variable_config)
    /\ design \in DesignsFor(variable_name, variable_config)
    /\ applied = NotCalled

ModIdle ==
    /\ variable_name = "x"
    /\ variable_config = [type |-> "continuous", min |-> 0, max |-> 0, ncat |-> 0]
    /\ strategy = [type |-> "gaussian", sigma |-> One, stepSize |-> One]
    /\ direction = "random"
    /\ design = <<>>
    /\ applied = NotCalled

Capped(dsg) == \A i \in 1..Len(dsg) : Abs(dsg[i][2]) <= ValueCap * One

Apply ==
    /\ Capped(design)
    /\ \E r \in Draws(strategy, variable_config, direction) :
          LET out == call(variable_name, strategy, variable_config, direction, design, r)
          IN  /\ design' = out
              /\ applied' = [called |-> TRUE, input |-> design,
                              argument |-> argument_after(design, out),
                              output |-> out]
    /\ UNCHANGED <<variable_name, variable_config, strategy, direction, evalvars,
                   objvars, runvars, restvars>>

ModNext == Apply

----------------------------------------------------------------------------
(* run_optimization as a state machine: seed generation (lines 97-159), then
   the optimizer's loop over the population and the response (lines 371-426).
   Numbers of this machine are plain integers. *)

(* line 98: max_attempts *)
MAX_ATTEMPTS == 1000

(* lines 102, 150: range(min(10, config.population_size)) *)
SEED_SLOTS == 10

(* line 386: top_N_iterations(5) *)
TOP_N == 5

(* problem.variables: a numeric variable x and a categorical variable y *)
ProblemVariables ==
    <<[name |-> "x", type |-> "continuous", min |-> -1, max |-> 1, ncat |-> 0],
      [name |-> "y", type |-> "categorical", min |-> 0, max |-> 0, ncat |-> 2]>>

(* lines 106-111: the values random.randint / random.uniform draw for var *)
RandomValues(var) ==
    IF var.type = "categorical" /\ var.ncat > 0
    THEN 0..(var.ncat - 1)
    ELSE var.min..var.max

(* lines 105-111: the designs of one random attempt, as dicts *)
RandomDicts ==
    {[x |-> v, y |-> c] : v \in RandomValues(ProblemVariables[1]),
                          c \in RandomValues(ProblemVariables[2])}

(* lines 134-142: the heuristic design, the first category and the middle
   of the range *)
HeuristicDict ==
    [n \in {ProblemVariables[i].name : i \in 1..Len(ProblemVariables)} |->
        LET var == ProblemVariables[CHOOSE i \in 1..Len(ProblemVariables) :
                                       ProblemVariables[i].name = n]
        IN  IF var.type = "categorical" /\ var.ncat > 0
            THEN 0
            ELSE (var.min + var.max) \div 2]

(* lines 151-158: the designs of the fallback, the first category and a
   random value of the range *)
FallbackDicts == {d \in RandomDicts : d["y"] = HeuristicDict["y"]}

(* the design dict as safe_eval receives it: uniform's floats, randint's ints *)
AsBindings(d) ==
    [n \in DOMAIN d |->
        LET var == ProblemVariables[CHOOSE i \in 1..Len(ProblemVariables) :
                                       ProblemVariables[i].name = n]
        IN  IF var.type = "categorical" THEN IntV(d[n]) ELSE FloatV(d[n])]

(* an exception of safe_eval counted as a satisfied constraint *)
all_constraints_satisfied_lenient(cs, d) ==
    \A i \in 1..Len(cs) :
        LET r == safe_eval(cs[i], AsBindings(d))
        IN  r.ok => Truthy(r.val)

(* lines 114-123: all_constraints_satisfied for the design dict d *)
all_constraints_satisfied(cs, d) ==
    \A i \in 1..Len(cs) :
        LET r == safe_eval(cs[i], AsBindings(d))
        IN  r.ok /\ Truthy(r.val)

(* range(min(10, config.population_size)) *)
SeedSlots(ps) == IF PyMin(SEED_SLOTS, ps) < 0 THEN 0 ELSE PyMin(SEED_SLOTS, ps)

(* a seed design with its provenance: how it was produced, and whether all
   the random attempts of its slot had failed, n being the failed ones *)
Seed(d, how, n) ==
    [design |-> sorted_items(d), how |-> how, exhausted |-> (n = MAX_ATTEMPTS)]

(* the configurations and problems of the runs *)
PopulationSizes == 0..2
IterationLimits == 0..2
ConstraintSets ==
    {<<>>,
     <<Compare(Name("x"), <<"LtE">>, <<Constant(IntV(-2))>>)>>,
     <<Compare(Name("x"), <<"LtE">>, <<Constant(IntV(0))>>)>>,
     <<Compare(Name("z"), <<"LtE">>, <<Constant(IntV(0))>>)>>}

NoCandidate == <<>>
NoResult == [variables |-> <<>>, score |-> -1, none |-> TRUE]

RunInit ==
    /\ population_size \in PopulationSizes
    /\ max_iterations \in IterationLimits
    /\ constraints \in ConstraintSets
    /\ phase = "Seeding"
    /\ seed_idx = 0
    /\ attempt = 0
    /\ attempt_satisfied = FALSE
    /\ seed_designs = <<>>
    /\ population = <<>>
    /\ iterations = 0
    /\ applications = 0
    /\ mutations = 0
    /\ candidate = NoCandidate
    /\ results = <<>>
    /\ best_design = NoResult

RunIdle ==
    /\ population_size = 0
    /\ max_iterations = 0
    /\ constraints = <<>>
    /\ phase = "Idle"
    /\ seed_idx = 0
    /\ attempt = 0
    /\ attempt_satisfied = FALSE
    /\ seed_designs = <<>>
    /\ population = <<>>
    /\ iterations = 0
    /\ applications = 0
    /\ mutations = 0
    /\ candidate = NoCandidate
    /\ results = <<>>
    /\ best_design = NoResult

optvars == <<population, iterations, applications, mutations, candidate, results, best_design>>

(* lines 104-129: one attempt of a seed slot, a random design kept when it
   satisfies every constraint *)
Attempt ==
    /\ phase = "Seeding"
    /\ seed_idx < SeedSlots(population_size)
    /\ attempt < MAX_ATTEMPTS
    /\ \E d \in RandomDicts :
          /\ attempt_satisfied' = all_constraints_satisfied(constraints, d)
          /\ IF attempt_satisfied'
             THEN /\ seed_designs' = Append(seed_designs, Seed(d, "random", attempt))
                  /\ seed_idx' = seed_idx + 1
                  /\ attempt' = 0
             ELSE /\ attempt' = attempt + 1
                  /\ UNCHANGED <<seed_designs, seed_idx>>
    /\ UNCHANGED <<population_size, max_iterations, constraints, phase, optvars,
                   modvars, evalvars, objvars, restvars>>

(* a slot whose attempts all failed left without a seed *)
Heuristic_skip ==
    /\ phase = "Seeding"
    /\ seed_idx < SeedSlots(population_size)
    /\ attempt = MAX_ATTEMPTS
    /\ seed_idx' = seed_idx + 1
    /\ attempt' = 0
    /\ UNCHANGED <<population_size, max_iterations, constraints, phase, seed_designs,
                   attempt_satisfied, optvars, modvars, evalvars, objvars, restvars>>

(* lines 130-143: the else of the attempts' for loop *)
Heuristic ==
    /\ phase = "Seeding"
    /\ seed_idx < SeedSlots(population_size)
    /\ attempt = MAX_ATTEMPTS
    /\ seed_designs' = Append(seed_designs, Seed(HeuristicDict, "heuristic", attempt))
    /\ seed_idx' = seed_idx + 1
    /\ attempt' = 0
    /\ UNCHANGED <<population_size, max_iterations, constraints, phase,
                   attempt_satisfied, optvars, modvars, evalvars, objvars, restvars>>

(* lines 145-159: the seed loop is over; with no seed at all, as many
   unchecked random designs as there are slots *)
FinishSeeding ==
    /\ phase = "Seeding"
    /\ seed_idx >= SeedSlots(population_size)
    /\ IF Len(seed_designs) = 0
       THEN \E f \in [1..SeedSlots(population_size) -> FallbackDicts] :
               seed_designs' = [i \in 1..SeedSlots(population_size) |->
                                   Seed(f[i], "unchecked", 0)]
       ELSE UNCHANGED seed_designs
    /\ phase' = "Seeded"
    /\ UNCHANGED <<population_size, max_iterations, constraints, seed_idx, attempt,
                   attempt_satisfied,
                   optvars, modvars, evalvars, objvars, restvars>>

(* The optimizer and its population (optimism_toolkit): scores are the
   aggregate scores of the objective function, left open *)
Scores == 0..1

Entry(dsg, score) == [design |-> dsg, score |-> score]

(* the index of the first entry of the highest score *)
FirstBest(pop) ==
    CHOOSE i \in 1..Len(pop) :
        /\ \A j \in 1..Len(pop) : pop[j].score <= pop[i].score
        /\ \A j \in 1..(i - 1) : pop[j].score < pop[i].score

(* the index of the last entry of the lowest score *)
LastWorst(pop) ==
    CHOOSE i \in 1..Len(pop) :
        /\ \A j \in 1..Len(pop) : pop[j].score >= pop[i].score
        /\ \A j \in (i + 1)..Len(pop) : pop[j].score > pop[i].score

Without(pop, i) == SubSeq(pop, 1, i - 1) \o SubSeq(pop, i + 1, Len(pop))

(* SimpleDesignSelector: sorted(iterations, key=score, reverse=True), which
   keeps entries of equal score in their order *)
RECURSIVE sort_function(_)
sort_function(pop) ==
    IF pop = <<>> THEN <<>>
    ELSE LET i == FirstBest(pop)
         IN  <<pop[i]>> \o sort_function(Without(pop, i))

(* the n entries of the highest score, earlier insertions first among equals *)
top_N_iterations(pop, n) ==
    LET ranked == sort_function(pop)
    IN  SubSeq(ranked, 1, IF n < Len(ranked) THEN n ELSE Len(ranked))

(* the population pruned to the cap by lowest score *)
RECURSIVE prune(_, _)
prune(pop, cap) ==
    IF Len(pop) <= cap \/ pop = <<>> THEN pop
    ELSE prune(Without(pop, LastWorst(pop)), cap)

(* an insertion that leaves the population above its cap *)
insert_unbounded(pop, entry, cap) ==
    IF \E i \in 1..Len(pop) : pop[i].design = entry.design
    THEN LET i == CHOOSE j \in 1..Len(pop) : pop[j].design = entry.design
         IN  [pop EXCEPT ![i] = entry]
    ELSE Append(pop, entry)

(* the insertion of a design iteration: the entry of the same design is
   replaced, otherwise the entry is added and the worst entries evicted *)
insert(pop, entry, cap) ==
    IF \E i \in 1..Len(pop) : pop[i].design = entry.design
    THEN LET i == CHOOSE j \in 1..Len(pop) : pop[j].design = entry.design
         IN  [pop EXCEPT ![i] = entry]
    ELSE prune(Append(pop, entry), cap)

(* the population built from the seed designs, each scored once *)
RECURSIVE from_seeds(_, _, _, _)
from_seeds(seeds, scores, cap, n) ==
    IF n = 0 THEN <<>>
    ELSE insert(from_seeds(seeds, scores, cap, n - 1),
                Entry(seeds[n].design, scores[n]), cap)

(* a stopping criterion that fires at once *)
stopping_criteria_true == TRUE

(* line 374: stopping_criteria=lambda **kwargs: False *)
stopping_criteria == FALSE

(* the designs a modifier returns for the design dsg: at most the value of
   one variable differs *)
Modified(dsg) ==
    {sorted_items(d) : d \in {m \in RandomDicts : m.x = dsg[1][2] \/ m.y = dsg[2][2]}}

(* lines 371-383: optimizer.optimize(...) starts on the seed designs *)
StartOptimizer ==
    /\ phase = "Seeded"
    /\ \E scores \in [1..Len(seed_designs) -> Scores] :
          population' = from_seeds(seed_designs, scores, population_size, Len(seed_designs))
    /\ phase' = "Iterating"
    /\ UNCHANGED <<population_size, max_iterations, constraints, seed_idx, attempt,
                   attempt_satisfied, seed_designs, iterations, applications, mutations, candidate,
                   results, best_design, modvars, evalvars, objvars, restvars>>

(* an iteration, first half: the top-ranked design is selected and a
   modifier applied to it *)
SelectAndApply ==
    /\ phase = "Iterating"
    /\ candidate = NoCandidate
    /\ iterations < max_iterations
    /\ ~stopping_criteria
    /\ population # <<>>
    /\ \E parent \in {population[FirstBest(population)].design} :
          candidate' \in Modified(parent)
    /\ applications' = applications + 1
    /\ UNCHANGED <<population_size, max_iterations, constraints, phase, seed_idx,
                   attempt, attempt_satisfied, seed_designs, population, iterations,
                   mutations, results, best_design, modvars, evalvars, objvars, restvars>>

(* an iteration, second half: the candidate is scored and inserted *)
InsertCandidate ==
    /\ phase = "Iterating"
    /\ candidate # NoCandidate
    /\ \E score \in Scores :
          population' = insert(population, Entry(candidate, score), population_size)
    /\ mutations' = mutations + 1
    /\ iterations' = iterations + 1
    /\ candidate' = NoCandidate
    /\ UNCHANGED <<population_size, max_iterations, constraints, phase, seed_idx,
                   attempt, attempt_satisfied, seed_designs, applications, results,
                   best_design, modvars, evalvars, objvars, restvars>>

(* an iteration on an empty population, which neither the sources nor the
   specification define: the run is aborted by an exception, or the
   iteration passes without a design *)
IterateEmpty ==
    /\ phase = "Iterating"
    /\ iterations < max_iterations
    /\ population = <<>>
    /\ \/ phase' = "Aborted" /\ UNCHANGED iterations
       \/ iterations' = iterations + 1 /\ UNCHANGED phase
    /\ UNCHANGED <<population_size, max_iterations, constraints, seed_idx, attempt,
                   attempt_satisfied, seed_designs, population, applications, mutations, candidate,
                   results, best_design, modvars, evalvars, objvars, restvars>>

(* lines 385-396: a design iteration as an entry of "results" *)
format_result(it) == [variables |-> it.design, score |-> it.score, none |-> FALSE]

(* lines 385-396, 420-426: the loop is over; the response holds the five
   best iterations and the first of them as best_design *)
Terminate ==
    /\ phase = "Iterating"
    /\ candidate = NoCandidate
    /\ iterations >= max_iterations \/ stopping_criteria
    /\ phase' = "Terminated"
    /\ \E top_iterations \in {top_N_iterations(population, TOP_N)} :
          /\ results' = [i \in 1..Len(top_iterations) |-> format_result(top_iterations[i])]
          /\ best_design' = IF Len(top_iterations) > 0
                            THEN format_result(top_iterations[1])
                            ELSE NoResult
    /\ UNCHANGED <<population_size, max_iterations, constraints, seed_idx, attempt,
                   attempt_satisfied, seed_designs, population, iterations, applications, mutations,
                   candidate, modvars, evalvars, objvars, restvars>>

(* the seed designs seed generation ends with: per slot a random design
   that satisfies the constraints or, when some design does not, the
   heuristic design *)
ProducedSeeds(ps, cs) ==
    LET valid == {d \in RandomDicts : all_constraints_satisfied(cs, d)}
        slot == {Seed(d, "random", 0) : d \in valid} \cup
                (IF valid # RandomDicts
                 THEN {Seed(HeuristicDict, "heuristic", MAX_ATTEMPTS)}
                 ELSE {})
    IN  [1..SeedSlots(ps) -> slot]

(* the run at the call of optimizer.optimize, seed generation over *)
OptimizerInit ==
    /\ population_size \in PopulationSizes
    /\ max_iterations \in IterationLimits
    /\ constraints \in ConstraintSets
    /\ phase = "Seeded"
    /\ seed_idx = SeedSlots(population_size)
    /\ attempt = 0
    /\ seed_designs \in ProducedSeeds(population_size, constraints)
    /\ attempt_satisfied = (/\ seed_designs # <<>>
                            /\ seed_designs[Len(seed_designs)].how = "random")
    /\ population = <<>>
    /\ iterations = 0
    /\ applications = 0
    /\ mutations = 0
    /\ candidate = NoCandidate
    /\ results = <<>>
    /\ best_design = NoResult

OptimizerNext ==
    \/ StartOptimizer
    \/ SelectAndApply
    \/ InsertCandidate
    \/ IterateEmpty
    \/ Terminate

(* lines 97-159: seed generation alone *)
SeedNext ==
    \/ Attempt
    \/ Heuristic
    \/ FinishSeeding

RunNext ==
    \/ Attempt
    \/ Heuristic
    \/ FinishSeeding
    \/ StartOptimizer
    \/ SelectAndApply
    \/ InsertCandidate
    \/ IterateEmpty
    \/ Terminate

----------------------------------------------------------------------------
(* run_optimization, constraints into violation objectives and heuristic
   weights (lines 64-86, 188-285, 346-369).  A text is the sequence of its
   characters; a modifier or objective name built by an f-string is the
   sequence of its prefix and the characters that follow.  Weights are in
   tenths: 0.1 is 1, 1.0 is 10. *)

IdentifierStart == {"x", "y", "c", "z", "a", "n", "d", "_"}
IdentifierPart == IdentifierStart \cup {"0", "1"}

(* expression.replace(" ", "") *)
replace_spaces(text) == SelectSeq(text, LAMBDA ch : ch # " ")

(* text[i:].startswith(op) *)
StartsWith(text, i, op) ==
    /\ i + Len(op) - 1 <= Len(text)
    /\ \A k \in 1..Len(op) : text[i + k - 1] = op[k]

(* op in text *)
contains(text, op) == \E i \in 1..Len(text) : StartsWith(text, i, op)

(* text.split(op): the pieces between the occurrences of op, left to right *)
RECURSIVE split_from(_, _, _, _)
split_from(text, op, i, piece) ==
    IF i > Len(text) THEN <<piece>>
    ELSE IF StartsWith(text, i, op)
         THEN <<piece>> \o split_from(text, op, i + Len(op), <<>>)
         ELSE split_from(text, op, i + 1, Append(piece, text[i]))

split(text, op) == split_from(text, op, 1, <<>>)

(* the end of the identifier that starts at i *)
RECURSIVE match_end(_, _)
match_end(text, i) ==
    IF i < Len(text) /\ text[i + 1] \in IdentifierPart
    THEN match_end(text, i + 1)
    ELSE i

(* re.findall(r'[a-zA-Z_][a-zA-Z0-9_]*', text) *)
RECURSIVE findall_from(_, _)
findall_from(text, i) ==
    IF i > Len(text) THEN <<>>
    ELSE IF text[i] \in IdentifierStart
         THEN <<SubSeq(text, i, match_end(text, i))>>
                  \o findall_from(text, match_end(text, i) + 1)
         ELSE findall_from(text, i + 1)

findall(text) == findall_from(text, 1)

NoOperator == <<>>

(* lines 195-217: analyze_constraint; the unpacking of line 208 raises
   ValueError unless split returns two pieces *)
analyze_constraint(text) ==
    LET expr == replace_spaces(text)
        op == IF contains(expr, <<"<", "=">>) THEN <<"<", "=">>
              ELSE IF contains(expr, <<">", "=">>) THEN <<">", "=">>
              ELSE IF contains(expr, <<"<">>) THEN <<"<">>
              ELSE IF contains(expr, <<">">>) THEN <<">">>
              ELSE NoOperator
    IN  IF op = NoOperator
        THEN [raised |-> FALSE, left_vars |-> <<>>, right_vars |-> <<>>, op |-> NoOperator]
        ELSE LET pieces == split(expr, op)
             IN  IF Len(pieces) # 2
                 THEN [raised |-> TRUE, left_vars |-> <<>>, right_vars |-> <<>>,
                       op |-> op]
                 ELSE [raised |-> FALSE, left_vars |-> findall(pieces[1]),
                       right_vars |-> findall(pieces[2]), op |-> op]

EmptyDict == [k \in {} |-> 0]

(* d[k] = v *)
Put(d, k, v) == [n \in DOMAIN d \cup {k} |-> IF n = k THEN v ELSE d[n]]

(* f"inc_{v}", f"dec_{v}", f"rand_{v}", f"mod_{v}" *)
ModifierName(prefix, v) == <<prefix>> \o v

(* f"Violation({constraint.expression})" *)
ViolationName(text) == <<"Violation(">> \o text \o <<")">>

(* the loop "for v in ids": the modifier named up gets 1.0 and the one named
   down gets -1.0, in that order, for each identifier in turn *)
RECURSIVE put_each(_, _, _, _)
put_each(weights, ids, up, down) ==
    IF ids = <<>> THEN weights
    ELSE put_each(Put(Put(weights, ModifierName(up, Head(ids)), 10),
                      ModifierName(down, Head(ids)), -10),
                  Tail(ids), up, down)

(* the weights of a '>' or '>=' constraint taken as those of '<' and '<=' *)
directional_weights_unmirrored(op, left_vars, right_vars) ==
    IF op = NoOperator THEN EmptyDict
    ELSE put_each(put_each(EmptyDict, left_vars, "dec_", "inc_"),
                  right_vars, "inc_", "dec_")

(* lines 260-276: the weights of the constraint's modifiers *)
directional_weights(op, left_vars, right_vars) ==
    IF op \in {<<"<", "=">>, <<"<">>}
    THEN put_each(put_each(EmptyDict, left_vars, "dec_", "inc_"),
                  right_vars, "inc_", "dec_")
    ELSE IF op \in {<<">", "=">>, <<">">>}
    THEN put_each(put_each(EmptyDict, left_vars, "inc_", "dec_"),
                  right_vars, "dec_", "inc_")
    ELSE EmptyDict

(* problem.variables of the wiring: two numeric variables and a categorical *)
WiredVariables ==
    <<[name |-> <<"x">>, type |-> "continuous"],
      [name |-> <<"y">>, type |-> "discrete"],
      [name |-> <<"c">>, type |-> "categorical"]>>

(* lines 64-86: the names of the modifiers registered for a variable *)
modifiers_of(variable) ==
    IF variable.type \in {"continuous", "discrete"}
    THEN {ModifierName("inc_", variable.name), ModifierName("dec_", variable.name),
          ModifierName("rand_", variable.name)}
    ELSE {ModifierName("mod_", variable.name)}

registered_modifiers ==
    UNION {modifiers_of(WiredVariables[i]) : i \in 1..Len(WiredVariables)}

(* the constraint expressions of the problems *)
ConstraintTexts ==
    {<<"x", " ", "<", "=", " ", "1">>,
     <<"x", ">", "=", "y">>,
     <<"x", "+", "y", "<", "1">>,
     <<"y", ">", "x">>,
     <<"x", "<", "=", "x", "+", "y">>,
     <<"0", "<", "=", "x", "<", "=", "1">>,
     <<"x", "=", "=", "1">>,
     <<"c", "<", "=", "1">>,
     <<"x", "*", "x", "<", "=", "z", "1">>,
     <<"x", "<", "=", "1", " ", "a", "n", "d", " ", "y", ">", "=", "0">>}

(* problem.constraints: up to two constraints, of different expressions *)
ConstraintLists ==
    {<<>>} \cup {<<a>> : a \in ConstraintTexts}
           \cup {p \in {<<a, b>> : a \in ConstraintTexts, b \in ConstraintTexts} :
                    p[1] # p[2]}

ObjectiveCounts == 0..1

(* the name of the i-th entry of problem.objectives *)
ObjectiveName(i) == <<"objective", i>>

WireInit ==
    /\ constraint_texts \in ConstraintLists
    /\ n_objectives \in ObjectiveCounts
    /\ wiring = "Analyzing"
    /\ constraint_i = 0
    /\ constraint_weights = EmptyDict
    /\ objective_function = <<>>
    /\ weights_map = EmptyDict

WireIdle ==
    /\ constraint_texts = <<>>
    /\ n_objectives = 0
    /\ wiring = "Idle"
    /\ constraint_i = 0
    /\ constraint_weights = EmptyDict
    /\ objective_function = <<>>
    /\ weights_map = EmptyDict


(* lines 219-285: one constraint is analysed, its weights are kept when there
   are any, and its violation objective is added with the weight 10.0 *)
AnalyzeConstraint ==
    /\ wiring = "Analyzing"
    /\ constraint_i < Len(constraint_texts)
    /\ \E text \in {constraint_texts[constraint_i + 1]} :
       \E a \in {analyze_constraint(text)} :
          IF a.raised
          THEN /\ wiring' = "Raised"
               /\ UNCHANGED <<constraint_i, constraint_weights, objective_function>>
          ELSE \E weights \in {directional_weights(a.op, a.left_vars, a.right_vars)} :
                  /\ constraint_weights' =
                        IF weights # EmptyDict
                        THEN Put(constraint_weights, ViolationName(text), weights)
                        ELSE constraint_weights
                  /\ objective_function' =
                        Append(objective_function,
                               [name |-> ViolationName(text), weight |-> VIOLATION_WEIGHT])
                  /\ constraint_i' = constraint_i + 1
                  /\ UNCHANGED wiring
    /\ UNCHANGED <<constraint_texts, n_objectives, weights_map,
                   modvars, evalvars, objvars, runvars, batchvars,
                   sessvars>>

(* lines 347-351, 353-367: every registered modifier gets 0.1 for every
   objective; then each constraint weight whose modifier the library knows
   overwrites the entry of its violation objective *)
connect(objectives, c_weights) ==
    [mod \in registered_modifiers |->
        [o \in {objectives[i].name : i \in 1..Len(objectives)} |->
            IF o \in DOMAIN c_weights /\ mod \in DOMAIN c_weights[o]
            THEN c_weights[o][mod]
            ELSE 1]]

(* lines 288-369: the objectives of the problem are added with the weight
   1.0, and the weights map is built *)
ConnectWeights ==
    /\ wiring = "Analyzing"
    /\ constraint_i = Len(constraint_texts)
    /\ \E objectives \in {objective_function \o
                             [i \in 1..n_objectives |->
                                 [name |-> ObjectiveName(i), weight |-> OBJECTIVE_WEIGHT]]} :
          /\ objective_function' = objectives
          /\ weights_map' = connect(objectives, constraint_weights)
    /\ wiring' = "Wired"
    /\ UNCHANGED <<constraint_texts, n_objectives, constraint_i, constraint_weights,
                   modvars, evalvars, objvars, runvars, batchvars,
                   sessvars>>

WireNext ==
    \/ AnalyzeConstraint
    \/ ConnectWeights

----------------------------------------------------------------------------
(* evaluate_expressions, the batch endpoint (routers/evaluate.py, lines
   170-199).  A string that may be null is a record [null, text]. *)

NullStr == [null |-> TRUE, text |-> ""]
Str(text) == [null |-> FALSE, text |-> text]

(* lines 185-197: the EvaluationResult of one expression, r being the
   outcome of safe_eval for it *)
EvaluationResult(expr, r) ==
    IF r.ok
    THEN [expression |-> expr,
          value |-> IF r.val.t \in {"int", "float", "bool"} THEN r.val ELSE NoneV,
          error |-> NullStr]
    ELSE [expression |-> expr, value |-> NoneV, error |-> Str(r.err)]

(* the expressions of the requests: a number, a bound and a sometimes unbound
   name, a comparison, a division by zero, a list, a whitelisted function, an
   unsupported node and a syntax error *)
BatchExpressions ==
    {Constant(IntV(1)), Name("x"), Name("y"),
     Compare(Name("x"), <<"Lt">>, <<Constant(IntV(1))>>),
     BinOp(Constant(IntV(1)), "FloorDiv", Name("x")),
     List(<<Constant(IntV(1))>>), Name("abs"), Attribute(Name("x")), Unparsable}

MaxBatch == 3

Requests ==
    {[expressions |-> e, variables |-> v] :
        e \in UNION {[1..n -> BatchExpressions] : n \in 0..MaxBatch},
        v \in {[n \in {"x"} |-> IntV(0)],
                [n \in {"x", "y"} |-> IF n = "x" THEN FloatV(2) ELSE IntV(1)]}}

NoResponse == [sent |-> FALSE, results |-> <<>>]

BatchInit ==
    /\ request \in Requests
    /\ results_so_far = <<>>
    /\ batch = "Evaluating"
    /\ response = NoResponse

BatchIdle ==
    /\ request = [expressions |-> <<>>, variables |-> [n \in {"x"} |-> IntV(0)]]
    /\ results_so_far = <<>>
    /\ batch = "Idle"
    /\ response = NoResponse


(* lines 184-197: the next expression of the request is evaluated and its
   result appended *)
EvaluateNext ==
    /\ batch = "Evaluating"
    /\ Len(results_so_far) < Len(request.expressions)
    /\ \E expr \in {request.expressions[Len(results_so_far) + 1]} :
          results_so_far' =
              Append(results_so_far,
                     EvaluationResult(expr, safe_eval(expr, request.variables)))
    /\ UNCHANGED <<request, batch, response, modvars, evalvars, objvars, runvars,
                   wirevars, sessvars>>

(* line 199: the loop is over, the response is returned *)
Respond ==
    /\ batch = "Evaluating"
    /\ Len(results_so_far) = Len(request.expressions)
    /\ response' = [sent |-> TRUE, results |-> results_so_far]
    /\ batch' = "Responded"
    /\ UNCHANGED <<request, results_so_far, modvars, evalvars, objvars, runvars,
                   wirevars, sessvars>>

BatchNext ==
    \/ EvaluateNext
    \/ Respond

----------------------------------------------------------------------------
(* add_message (routers/sessions.py, lines 255-293, and the same handler in
   routers/session_messages.py).  A message text is the set of the signal
   phrases that occur in text.lower(). *)

(* utils/common.py, detect_formalization_readiness *)
detect_formalization_readiness(text) ==
    \/ /\ \E p \in {"enough information", "ready to formalize", "can now formalize",
                      "sufficient information"} : p \in text
       /\ \E p \in {"formalize", "formalise"} : p \in text
    \/ /\ \E p \in {"would you like", "shall i", "should i", "want me to"} : p \in text
       /\ \E p \in {"formalize", "formalise", "structured", "problem definition"} :
              p \in text

(* the status update in which a message that shows no readiness clears the
   flag *)
update_status_clearing(session, sender, content) ==
    IF sender = "user" /\ session.mode = "experimental"
    THEN [session EXCEPT !.status = "waiting", !.readyToFormalize = FALSE]
    ELSE IF sender \in {"researcher", "ai"}
    THEN [session EXCEPT !.status = "active",
                         !.readyToFormalize = detect_formalization_readiness(content)]
    ELSE session

(* lines 276-287: the session after a message of sender and content *)
update_status(session, sender, content) ==
    IF sender = "user" /\ session.mode = "experimental"
    THEN [session EXCEPT !.status = "waiting", !.readyToFormalize = FALSE]
    ELSE IF sender = "researcher"
    THEN [session EXCEPT !.status = "active",
                         !.readyToFormalize =
                             IF detect_formalization_readiness(content) THEN TRUE ELSE @]
    ELSE IF sender = "ai"
    THEN [session EXCEPT !.status = "active",
                         !.readyToFormalize =
                             IF detect_formalization_readiness(content) THEN TRUE ELSE @]
    ELSE session

SessionIds == {"s1", "s2"}
Senders == {"user", "researcher", "ai", "system"}
Modes == {"experimental", "ai"}
Statuses == {"active", "waiting"}

(* message texts: plain, ready by each of the two rules, and one that holds
   one half of a rule only *)
Contents ==
    {{}, {"ready to formalize", "formalize"}, {"enough information"},
     {"would you like", "structured"}}

MaxMessages == 2       \* messages stored in a run

(* generate_id(): a millisecond timestamp and four random digits, which two
   calls can share *)
MessageIds == 1..MaxMessages

NoCall == [status_code |-> 0, session_id |-> "s1", sender |-> "user", content |-> {}]

StoredIds == {messages[i].id : i \in 1..Len(messages)}

SessInit ==
    /\ sessions \in [{"s1"} -> [mode : Modes, status : Statuses,
                                 readyToFormalize : BOOLEAN]]
    /\ messages = <<>>
    /\ last_call = NoCall

SessIdle ==
    /\ sessions = [s \in {} |-> 0]
    /\ messages = <<>>
    /\ last_call = NoCall

RestIdle == WireIdle /\ BatchIdle /\ SessIdle

(* lines 257-259: no such session, HTTP 404; the request body is not read *)
AddMessageNotFound ==
    \E session_id \in SessionIds \ DOMAIN sessions :
        /\ last_call' = [NoCall EXCEPT !.status_code = 404, !.session_id = session_id]
        /\ UNCHANGED <<sessions, messages, modvars, evalvars, objvars, runvars, wirevars,
                       batchvars>>

(* lines 261-293: the message is stored and the session updated *)
AddMessage ==
    /\ Len(messages) < MaxMessages
    /\ \E session_id \in DOMAIN sessions, sender \in Senders, content \in Contents,
          id \in MessageIds \ StoredIds :
          /\ messages' = Append(messages,
                                [id |-> id, sessionId |-> session_id, sender |-> sender,
                                 content |-> content])
          /\ sessions' = [sessions EXCEPT
                             ![session_id] = update_status(@, sender, content)]
          /\ last_call' = [status_code |-> 200, session_id |-> session_id,
                           sender |-> sender, content |-> content]
    /\ UNCHANGED <<modvars, evalvars, objvars, runvars, wirevars, batchvars>>

(* line 289: the commit fails on a message id that is stored already; the
   transaction is rolled back and the request ends with an HTTP 500 *)
AddMessageDuplicateId ==
    /\ \E session_id \in DOMAIN sessions, id \in StoredIds :
          last_call' = [NoCall EXCEPT !.status_code = 500, !.session_id = session_id]
    /\ UNCHANGED <<sessions, messages, modvars, evalvars, objvars, runvars, wirevars,
                   batchvars>>

SessNext ==
    \/ AddMessageNotFound
    \/ AddMessage
    \/ AddMessageDuplicateId

----------------------------------------------------------------------------
(* Specifications: one per component, the other components idle *)

Init == ModInit /\ EvalIdle /\ ObjIdle /\ RunIdle /\ RestIdle

Next == ModNext

Spec == Init /\ [][Next]_vars

EvalSpecInit == EvalInit /\ ModIdle /\ ObjIdle /\ RunIdle /\ RestIdle

EvalSpec == EvalSpecInit /\ [][EvalNext]_vars

ObjSpecInit == ObjInit /\ ModIdle /\ EvalIdle /\ RunIdle /\ RestIdle

ObjSpec == ObjSpecInit /\ [][ObjNext]_vars

RunObjSpecInit == RunObjInit /\ ModIdle /\ EvalIdle /\ RunIdle /\ RestIdle

RunObjSpec == RunObjSpecInit /\ [][ObjNext]_vars

RunSpecInit == RunInit /\ ModIdle /\ EvalIdle /\ ObjIdle /\ RestIdle

RunSpec == RunSpecInit /\ [][RunNext]_vars

SeedSpec == RunSpecInit /\ [][SeedNext]_vars

WireSpecInit == WireInit /\ ModIdle /\ EvalIdle /\ ObjIdle /\ RunIdle /\ BatchIdle /\ SessIdle

WireSpec == WireSpecInit /\ [][WireNext]_vars

BatchSpecInit == BatchInit /\ ModIdle /\ EvalIdle /\ ObjIdle /\ RunIdle /\ WireIdle /\ SessIdle

BatchSpec == BatchSpecInit /\ [][BatchNext]_vars

SessSpecInit == SessInit /\ ModIdle /\ EvalIdle /\ ObjIdle /\ RunIdle /\ WireIdle /\ BatchIdle

SessSpec == SessSpecInit /\ [][SessNext]_vars

OptimizerSpecInit == OptimizerInit /\ ModIdle /\ EvalIdle /\ ObjIdle /\ RestIdle

(* the optimizer's run is one uninterrupted computation: a step that can be
   taken is taken *)
OptimizerSpec == OptimizerSpecInit /\ [][OptimizerNext]_vars /\ WF_vars(OptimizerNext)

----------------------------------------------------------------------------
(* Claims *)

(* the value the design dsg gives the variable name *)
ValueIn(dsg, name) == dict(dsg)[name]

Bound(dsg) == variable_name \in DOMAIN dict(dsg)

InputValue == ValueIn(applied.input, variable_name)
OutputValue == ValueIn(applied.output, variable_name)

(* C1: applied to a design whose value for a continuous or discrete variable
   lies in [min, max], a modifier of any strategy and direction returns a
   value in [min, max], and an integer when the variable is discrete. *)
C1_NumericResultWithinBounds ==
    (/\ applied.called
     /\ variable_config.type \in {"continuous", "discrete"}
     /\ Bound(applied.input)
     /\ variable_config.min <= InputValue /\ InputValue <= variable_config.max)
    => /\ variable_config.min <= OutputValue
       /\ OutputValue <= variable_config.max
       /\ variable_config.type = "discrete" => IsInteger(OutputValue)

ValidIndex(v) == \E i \in 0..(variable_config.ncat - 1) : v = i * One

(* C2: applied to a design whose value for a categorical variable of n >= 2
   categories is an index in 0..n-1, a modifier of any strategy type returns
   an integer index in 0..n-1. *)
C2_CategoricalResultIsIndex ==
    (/\ applied.called
     /\ variable_config.type = "categorical"
     /\ variable_config.ncat >= 2
     /\ Bound(applied.input)
     /\ ValidIndex(InputValue))
    => ValidIndex(OutputValue)

(* every node of the tree under node, node included *)
RECURSIVE NodesIn(_)
NodesIn(node) ==
    {node} \cup UNION {NodesIn(node.kids[i]) : i \in 1..Len(node.kids)}

UndefinedName(n) ==
    n.node = "Name" /\ n.id \notin DOMAIN bindings /\ n.id \notin SAFE_FUNCTIONS

SupportedNodes ==
    {"Expression", "Constant", "Name", "BinOp", "UnaryOp", "Compare", "IfExp",
     "Call", "List", "Tuple"}

(* a node outside the grammar: its class, or one of its operators *)
Unsupported(n) ==
    n.node \notin SupportedNodes \/ \E i \in 1..Len(n.ops) : n.ops[i] \notin SAFE_OPERATORS

(* link i of the comparison node, between its operands i and i+1, is
   evaluated to false *)
LinkFalse(node, i) ==
    LET a == eval_node(node.kids[i], bindings)
        b == eval_node(node.kids[i + 1], bindings)
        h == apply_operator(node.ops[i], a.val, b.val)
    IN  a.ok /\ b.ok /\ node.ops[i] \in SAFE_OPERATORS /\ h.ok /\ ~Truthy(h.val)

(* the children Python's semantics leaves unevaluated: the branch of a
   ternary that is not taken, the comparators after a false link *)
SkippedKids(node) ==
    IF node.node = "IfExp"
    THEN LET c == eval_node(node.kids[1], bindings)
         IN  IF ~c.ok THEN {} ELSE IF Truthy(c.val) THEN {3} ELSE {2}
    ELSE IF node.node = "Compare"
    THEN {j \in 1..Len(node.kids) : \E i \in 1..Len(node.ops) : LinkFalse(node, i) /\ j > i + 1}
    ELSE {}

(* the node is outside the grammar by its class, or by an operator that is
   not behind a false link of its chain *)
UnsupportedReached(n) ==
    \/ n.node \notin SupportedNodes
    \/ \E i \in 1..Len(n.ops) :
          /\ n.ops[i] \notin SAFE_OPERATORS
          /\ n.node = "Compare" => ~\E j \in 1..(i - 1) : LinkFalse(n, j)

(* the nodes in positions that are evaluated *)
RECURSIVE PositionsEvaluated(_)
PositionsEvaluated(node) ==
    {node} \cup UNION {PositionsEvaluated(node.kids[i]) :
                          i \in (1..Len(node.kids)) \ SkippedKids(node)}

Visited == {result.visited[i] : i \in 1..Len(result.visited)}

(* C3 as claimed: safe_eval fails for every expression that references an
   undefined name, wherever the name occurs. *)
C3_UndefinedNameAnywhereFails ==
    (evaluated /\ \E n \in NodesIn(expression) : UndefinedName(n)) => ~result.ok

(* C3 as amended: safe_eval fails for every expression whose evaluation
   reaches an undefined name; an expression that references one and still
   succeeds has it only in the untaken branch of a ternary or after a false
   link of a chained comparison. *)
C3_ReachedUndefinedNameFails ==
    evaluated =>
        /\ (\E n \in Visited : UndefinedName(n)) => ~result.ok
        /\ result.ok => \A n \in PositionsEvaluated(expression) : ~UndefinedName(n)

(* C3: a ternary whose taken branch is an undefined name has failed *)
C3_Witness ==
    /\ evaluated
    /\ expression.node = "IfExp"
    /\ UndefinedName(expression.kids[2])
    /\ 3 \in SkippedKids(expression)
    /\ ~result.ok /\ result.err = "NameError"

AllCallsWhitelisted == \A i \in 1..Len(result.calls) : result.calls[i] \in SAFE_FUNCTIONS

ReadsFromBindingsOrWhitelist ==
    \A i \in 1..Len(result.reads) :
        LET r == result.reads[i]
        IN  \/ r.id \in DOMAIN bindings /\ r.val = bindings[r.id]
            \/ r.id \notin DOMAIN bindings /\ r.id \in SAFE_FUNCTIONS /\ r.val = FnV(r.id)

CalleeOutcome == eval_node(expression.kids[1], bindings)

CalleeWhitelisted ==
    CalleeOutcome.ok /\ CalleeOutcome.val.t = "fn" /\ CalleeOutcome.val.s \in SAFE_FUNCTIONS

(* C4 as claimed: only whitelisted functions are invoked, names are read from
   the bindings or the whitelist, and a call whose callee does not resolve to
   a whitelisted function fails without invoking anything. *)
C4_NothingInvokedWithoutCallee ==
    evaluated =>
        /\ AllCallsWhitelisted
        /\ ReadsFromBindingsOrWhitelist
        /\ (expression.node = "Call" /\ ~CalleeWhitelisted)
              => ~result.ok /\ result.calls = <<>>

(* C4 as amended: only whitelisted functions are invoked, names are read from
   the bindings or the whitelist, and a call whose callee does not resolve to
   a whitelisted function fails without invoking the callee; the functions
   invoked are those of evaluating the callee expression and, the callee
   evaluated, the arguments. *)
C4_OnlyWhitelistedInvoked ==
    evaluated =>
        /\ AllCallsWhitelisted
        /\ ReadsFromBindingsOrWhitelist
        /\ (expression.node = "Call" /\ ~CalleeWhitelisted)
              => /\ ~result.ok
                 /\ result.calls =
                       CalleeOutcome.calls \o
                       (IF CalleeOutcome.ok
                        THEN eval_seq(Tail(expression.kids), bindings).calls
                        ELSE <<>>)

(* C4: a call of a bound number has failed after abs was invoked for its
   argument *)
C4_Witness ==
    /\ evaluated
    /\ expression.node = "Call"
    /\ CalleeOutcome.ok /\ ~CalleeWhitelisted
    /\ ~result.ok /\ result.err = "ValueError"
    /\ result.calls = <<"abs">>

(* C5 as claimed: safe_eval rejects every expression that contains a node
   outside the supported grammar. *)
C5_UnsupportedNodeAnywhereRejected ==
    (evaluated /\ \E n \in NodesIn(expression) : Unsupported(n)) => ~result.ok

(* C5 as amended: safe_eval rejects every expression whose evaluation reaches
   a node or an operator outside the supported grammar, so none contributes
   to a returned value; an expression that contains one and still succeeds
   has it only in the untaken branch of a ternary or after a false link of a
   chained comparison, the operators of the later links included. *)
C5_ReachedUnsupportedNodeRejected ==
    evaluated =>
        /\ (\E n \in Visited : UnsupportedReached(n)) => ~result.ok
        /\ result.ok => \A n \in PositionsEvaluated(expression) : ~UnsupportedReached(n)

(* C5: a ternary whose taken branch is an attribute access is rejected *)
C5_Witness ==
    /\ evaluated
    /\ expression.node = "IfExp"
    /\ expression.kids[3].node = "Attribute"
    /\ 2 \in SkippedKids(expression)
    /\ ~result.ok /\ result.err = "ValueError"

(* C6: every successful safe_eval call returns a float. *)
C6_ReturnsFloat == (evaluated /\ result.ok) => result.val.t = "float"

ComparisonOps == {"Eq", "NotEq", "Lt", "LtE", "Gt", "GtE"}

(* a op b on numbers *)
NumHolds(op, a, b) ==
    CASE op = "Eq" -> a = b
      [] op = "NotEq" -> a # b
      [] op = "Lt" -> a < b
      [] op = "LtE" -> a <= b
      [] op = "Gt" -> a > b
      [] op = "GtE" -> a >= b
      [] OTHER -> FALSE

Operand(i) == eval_node(expression.kids[i], bindings)

NumericUpTo(j) == \A i \in 1..j : Operand(i).ok /\ IsNum(Operand(i).val)

LinkHolds(i) == NumHolds(expression.ops[i], Operand(i).val.n, Operand(i + 1).val.n)

(* link i is the first that fails, its operands and those before numeric *)
FirstFailing(i) ==
    NumericUpTo(i + 1) /\ ~LinkHolds(i) /\ \A j \in 1..(i - 1) : LinkHolds(j)

RECURSIVE OperandVisits(_)
OperandVisits(j) == IF j = 0 THEN <<>> ELSE OperandVisits(j - 1) \o Operand(j).visited

(* what safe_eval visits when it evaluates the operands 1..j and no other *)
VisitsUpTo(j) == <<Expression(expression), expression>> \o OperandVisits(j)

(* C7: a chained comparison over numeric operands returns 1.0 when every
   adjacent link holds, and 0.0 at the first link that fails, each link
   comparing with the operand right before it and no comparator after the
   failing link being evaluated. *)
C7_ChainedComparison ==
    (/\ evaluated
     /\ expression.node = "Compare"
     /\ \A i \in 1..Len(expression.ops) : expression.ops[i] \in ComparisonOps)
    => /\ \A i \in 1..Len(expression.ops) :
              FirstFailing(i) =>
                  /\ result.ok /\ result.val = FloatV(0)
                  /\ result.visited = VisitsUpTo(i + 1)
       /\ (NumericUpTo(Len(expression.kids)) /\ \A i \in 1..Len(expression.ops) : LinkHolds(i))
              => /\ result.ok /\ result.val = FloatV(1)
                 /\ result.visited = VisitsUpTo(Len(expression.kids))

(* C7: a chain of two links whose first link failed returned 0.0 although
   its last comparator cannot be evaluated *)
C7_Witness ==
    /\ evaluated
    /\ expression.node = "Compare"
    /\ Len(expression.ops) = 2
    /\ \A i \in 1..2 : expression.ops[i] \in ComparisonOps
    /\ FirstFailing(1)
    /\ ~Operand(3).ok
    /\ result.ok /\ result.val = FloatV(0)

(* C8: the violation objective of a constraint expression scores 0.0 exactly
   when the expression evaluates to a true value, and 1.0 in every other
   case, an evaluation error included. *)
C8_ViolationScore ==
    evaluated =>
        /\ violation = 0 <=> (result.ok /\ Truthy(result.val))
        /\ violation # 0 => violation = One

(* C8: a comparison that raised scores 1.0 *)
C8_Witness ==
    /\ evaluated
    /\ expression.node = "Compare"
    /\ ~result.ok
    /\ violation = One

(* C9: with violation objectives at weight 10 and the objective at weight 1,
   a design that satisfies every constraint has a strictly higher aggregate
   score than a design that violates one. *)
C9_SatisfiedDominates ==
    (iteration.evaluated /\ previous.evaluated) =>
        /\ (iteration.satisfied /\ ~previous.satisfied)
              => FGt(iteration.score, previous.score)
        /\ (previous.satisfied /\ ~iteration.satisfied)
              => FGt(previous.score, iteration.score)

(* C10: whatever the initial bound estimates and the raw values, every score
   an objective built by make_objective_func returns lies in [0, 1]. *)
C10_ScoreInUnitInterval ==
    iteration.evaluated =>
        /\ iteration.objective.k = "fin"
        /\ 0 <= iteration.objective.n
        /\ iteration.objective.n <= iteration.objective.d

(* C10: after an earlier evaluation, an infinite raw value was scored *)
C10_Witness ==
    /\ iteration.evaluated
    /\ previous.evaluated
    /\ iteration.outcome.ok
    /\ iteration.outcome.raw = Inf
    /\ iteration.objective = Fin(1, 1)

(* C11: when evaluating the objective's expression raises, the objective
   returns the score 0.0 and its running observed minimum and maximum stay
   as they were. *)
C11_ErrorScoresZero ==
    [][~iteration'.outcome.ok =>
          /\ iteration'.objective = Fin(0, 1)
          /\ obs_min' = obs_min
          /\ obs_max' = obs_max]_vars

(* C11: after an earlier evaluation, an evaluation that raised scored 0.0 *)
C11_Witness ==
    /\ iteration.evaluated
    /\ previous.evaluated
    /\ ~iteration.outcome.ok
    /\ iteration.objective = Fin(0, 1)

(* C12: evaluating the same design a second time in succession returns the
   same score and changes neither running bound. *)
C12_RepeatedEvaluationSameScore ==
    [][iteration'.repeated =>
          /\ iteration'.objective = iteration.objective
          /\ iteration'.score = iteration.score
          /\ obs_min' = obs_min
          /\ obs_max' = obs_max]_vars

(* C12: a design whose raw value is the observed maximum was evaluated a
   second time, with the score of the first *)
C12_Witness ==
    /\ iteration.repeated
    /\ iteration.outcome.ok
    /\ iteration.outcome.raw.k = "fin"
    /\ iteration.outcome.raw = obs_max
    /\ FLt(obs_min, obs_max)
    /\ iteration.score = previous.score

(* the states in which seed generation ends are those the optimizer's
   specification starts in *)
SeededAsProduced ==
    phase = "Seeded" =>
        /\ seed_designs \in ProducedSeeds(population_size, constraints)
        /\ seed_idx = SeedSlots(population_size)
        /\ attempt = 0
        /\ attempt_satisfied = (/\ seed_designs # <<>>
                                /\ seed_designs[Len(seed_designs)].how = "random")
        /\ population = <<>> /\ iterations = 0 /\ applications = 0 /\ mutations = 0
        /\ candidate = NoCandidate /\ results = <<>> /\ best_design = NoResult

(* no random design satisfies every constraint *)
Unsatisfiable ==
    \A d \in RandomDicts :
        \E i \in 1..Len(constraints) :
            LET r == safe_eval(constraints[i], AsBindings(d))
            IN  ~(r.ok /\ Truthy(r.val))

(* the midpoint of x's range [-1, 1] and the first category of y, after all
   1000 attempts of the slot *)
HeuristicSeed ==
    [design |-> <<(<<"x", 0>>), (<<"y", 0>>)>>, how |-> "heuristic", exhausted |-> TRUE]

(* C13: with constraints that no design of the domains satisfies, every
   seed slot uses up its 1000 random attempts and yields the heuristic
   design, and seed generation ends with one seed per slot. *)
C13_UnsatisfiableFallsBack ==
    Unsatisfiable =>
        /\ \A i \in 1..Len(seed_designs) : seed_designs[i] = HeuristicSeed
        /\ phase # "Seeding" => Len(seed_designs) = SeedSlots(population_size)
        /\ phase = "Seeding" => Len(seed_designs) = seed_idx

(* C13: seed generation is over with two heuristic seeds *)
C13_Witness ==
    /\ Unsatisfiable
    /\ phase = "Seeded"
    /\ seed_designs = <<HeuristicSeed, HeuristicSeed>>

OptimizerStarted == phase \in {"Iterating", "Terminated", "Aborted"}

(* C14: the optimizer is never started on an empty seed set, nor on seeds
   other than constraint-checked random designs and heuristic designs. *)
C14_NoRunWithoutSeeds ==
    OptimizerStarted =>
        /\ Len(seed_designs) > 0
        /\ \A i \in 1..Len(seed_designs) : seed_designs[i].how \in {"random", "heuristic"}

Descending(entries) ==
    \A i \in 1..Len(entries) : \A j \in i..Len(entries) : entries[i].score >= entries[j].score

TopCounts == 0..3

(* C15: the population never holds more than population_cap iterations;
   top_N(k) returns at most min(k, size) iterations of the population in
   descending score order; the response holds at most 5 results in
   descending score order, best_design being the first, or None. *)
C15_PopulationBounded ==
    OptimizerStarted =>
        /\ Len(population) <= population_size
        /\ \A k \in TopCounts :
              LET top == top_N_iterations(population, k)
              IN  /\ Len(top) <= k /\ Len(top) <= Len(population)
                  /\ Descending(top)
                  /\ \A i \in 1..Len(top) : \E j \in 1..Len(population) : top[i] = population[j]
        /\ phase = "Terminated" =>
              /\ Len(results) <= TOP_N
              /\ Len(results) <= Len(population)
              /\ Descending(results)
              /\ \A j \in 1..Len(population) :
                    Len(results) < Len(population) =>
                        results[Len(results)].score >= population[j].score
                        \/ \E i \in 1..Len(results) : results[i].variables = population[j].design
              /\ best_design = IF results = <<>> THEN NoResult ELSE results[1]

(* C15: a run ended on a full population whose later entry scores higher,
   and that entry is the best design *)
C15_Witness ==
    /\ phase = "Terminated"
    /\ applications > 0
    /\ Len(population) = 2
    /\ Len(population) = population_size
    /\ population[1].score < population[2].score
    /\ Len(results) = 2
    /\ best_design = format_result(population[2])

Pending == IF candidate = NoCandidate THEN 0 ELSE 1

(* C16: a run that has seed designs applies at most max_iterations
   modifiers, each application followed by one population mutation before
   the next; it reaches Terminated, and the stopping criterion being always
   false, it has then performed exactly max_iterations iterations. *)
C16_IterationBudget ==
    /\ [](Len(seed_designs) > 0 =>
            /\ applications <= max_iterations
            /\ applications = mutations + Pending
            /\ iterations = mutations
            /\ phase # "Aborted"
            /\ phase = "Terminated" =>
                  applications = max_iterations /\ mutations = max_iterations)
    /\ (phase = "Seeded" /\ Len(seed_designs) > 0) ~> (phase = "Terminated")

(* C16: a run of two iterations has terminated *)
C16_Witness ==
    /\ phase = "Terminated"
    /\ Len(seed_designs) > 0
    /\ max_iterations = 2
    /\ applications = 2
    /\ mutations = 2

----------------------------------------------------------------------------
(* Frame of a modifier application *)

Names(dsg) == {dsg[i][1] : i \in 1..Len(dsg)}

(* a tuple of (name, value) pairs sorted by name, each name once *)
Canonical(dsg) ==
    \A i \in 1..Len(dsg), j \in 1..Len(dsg) :
        i < j => NameIndex(dsg[i][1]) < NameIndex(dsg[j][1])

(* C17: a modifier applied to a canonical design that has no entry for the
   modifier's bound variable returns a design equal to its input, and the
   result has no entry for that variable either. *)
C17_AbsentVariableNoOp ==
    (/\ applied.called
     /\ Canonical(applied.input)
     /\ variable_name \notin Names(applied.input))
    => /\ applied.output = applied.input
       /\ variable_name \notin Names(applied.output)

(* a modifier has been applied to a canonical design that lacks its variable *)
C17_Witness ==
    /\ applied.called
    /\ applied.input # <<>>
    /\ Canonical(applied.input)
    /\ variable_name \notin Names(applied.input)

(* C18: an application leaves the design it was given as it was, changes the
   value of no variable but the bound one, adds and removes no variable, and
   returns the pairs sorted by name. *)
C18_FrameAndCanonicalForm ==
    applied.called =>
        /\ applied.argument = applied.input
        /\ Names(applied.output) = Names(applied.input)
        /\ \A n \in Names(applied.input) \ {variable_name} :
              dict(applied.output)[n] = dict(applied.input)[n]
        /\ Canonical(applied.output)

(* an application to pairs given out of name order that changed the value of
   the bound variable *)
C18_Witness ==
    /\ applied.called
    /\ ~Canonical(applied.input)
    /\ variable_name \in Names(applied.input)
    /\ dict(applied.output)[variable_name] # dict(applied.input)[variable_name]

----------------------------------------------------------------------------
(* Running bounds and min-max scaling *)

(* a <= b; False when either is nan *)
FLe(a, b) == a.k # "nan" /\ b.k # "nan" /\ ~FLt(b, a)

Within(raw, lo, hi) == FLe(lo, raw) /\ FLe(raw, hi)

(* the running bounds of an evaluation never move inwards *)
BoundsWiden == [][FLe(obs_min', obs_min) /\ FLe(obs_max, obs_max')]_vars

(* the running bounds are ordered *)
BoundsOrdered == FLe(obs_min, obs_max)

(* C19: over any sequence of evaluations of one objective observed_min never
   increases, observed_max never decreases, observed_min <= observed_max
   holds throughout, and after every successful evaluation the raw value
   just seen lies within [observed_min, observed_max]. *)
C19_BoundsOnlyExpand ==
    /\ BoundsWiden
    /\ []BoundsOrdered
    /\ []((iteration.evaluated /\ iteration.outcome.ok)
            => Within(iteration.outcome.raw, obs_min, obs_max))

(* the evaluation just made returned a float that is a number *)
NumberSeen == iteration'.outcome.ok /\ iteration'.outcome.raw.k # "nan"

(* what C19 says, for the raw values that are numbers *)
C19_NumbersWithinBounds ==
    [][NumberSeen => Within(iteration'.outcome.raw, obs_min', obs_max')]_vars

(* (raw - min) / (max - min), or 0.5 when the bounds coincide *)
MinMaxScaled(raw, lo, hi) ==
    IF hi = lo THEN Fin(1, 2) ELSE FDiv(FSub(raw, lo), FSub(hi, lo))

(* C20: with the running bounds of the evaluation, a maximize objective
   scores the raw value 0.5 when the bounds coincide and
   (raw - min) / (max - min) otherwise, and a minimize objective scores it
   exactly 1 minus what a maximize objective scores for the same raw value
   and bounds. *)
C20_MinMaxScaling ==
    [][iteration'.outcome.ok =>
          \E up \in {evaluate("maximize", obs_min, obs_max, iteration'.outcome).score} :
              /\ up = MinMaxScaled(iteration'.outcome.raw, obs_min', obs_max')
              /\ goal = "maximize" => iteration'.objective = up
              /\ goal = "minimize" => iteration'.objective = FSub(Fin(1, 1), up)]_vars

(* the evaluation just made saw a finite raw value within finite bounds *)
FiniteSeen ==
    /\ iteration'.outcome.ok
    /\ iteration'.outcome.raw.k = "fin"
    /\ obs_min'.k = "fin"
    /\ obs_max'.k = "fin"

(* what C20 says, for finite raw values and finite running bounds *)
C20_FiniteMinMaxScaling ==
    [][FiniteSeen =>
          \E up \in {evaluate("maximize", obs_min, obs_max, iteration'.outcome).score} :
              /\ up = MinMaxScaled(iteration'.outcome.raw, obs_min', obs_max')
              /\ goal = "maximize" => iteration'.objective = up
              /\ goal = "minimize" => iteration'.objective = FSub(Fin(1, 1), up)]_vars

----------------------------------------------------------------------------
(* Seed generation *)

(* the design dict d satisfies every constraint, an evaluation that raises
   counting as not satisfied *)
Satisfies(d) ==
    \A i \in 1..Len(constraints) :
        \E r \in {safe_eval(constraints[i], AsBindings(d))} : r.ok /\ Truthy(r.val)

(* a random seed design has just been accepted *)
RandomSeedAccepted ==
    /\ Len(seed_designs') = Len(seed_designs) + 1
    /\ seed_designs'[Len(seed_designs')].how = "random"

(* C21: every seed design accepted from random sampling satisfies every
   constraint of the problem, a constraint whose evaluation raises counting
   as not satisfied, and it is the first such design drawn for its slot:
   every draw passed over before it failed a constraint. *)
C21_RandomSeedsSatisfyConstraints ==
    /\ [](\A i \in 1..Len(seed_designs) :
             seed_designs[i].how = "random" => Satisfies(dict(seed_designs[i].design)))
    /\ [][/\ (phase = "Seeding" /\ attempt' = attempt + 1) => ~attempt_satisfied'
          /\ RandomSeedAccepted => attempt_satisfied']_vars

(* under a constraint that some random designs fail, a slot has drawn a
   failing design and the slot before it accepted a random one *)
C21_Witness ==
    /\ phase = "Seeding"
    /\ constraints # <<>>
    /\ Len(seed_designs) = 1
    /\ seed_designs[1].how = "random"
    /\ attempt > 0

(* the steps seed generation can still take, at most: the attempts left to
   the slot being filled, a heuristic step and the full budget of every slot
   after it, and the step that ends the loops *)
Remaining ==
    IF phase # "Seeding" THEN 0
    ELSE (SeedSlots(population_size) - seed_idx) * (MAX_ATTEMPTS + 2)
         + (MAX_ATTEMPTS - attempt) + 1

(* C22: seed generation terminates (while it runs a step is always possible,
   and every step lowers the number of steps remaining, which is never
   negative), makes at most 1000 random attempts for a
   slot, fills the slots one by one with one seed each, and ends with exactly
   min(10, population_size) seed designs whenever population_size >= 1. *)
C22_SeedGenerationTerminates ==
    /\ [](phase = "Seeding" => ENABLED SeedNext)
    /\ [](Remaining >= 0)
    /\ [][Remaining' < Remaining]_vars
    /\ [](attempt <= MAX_ATTEMPTS)
    /\ [](phase = "Seeding" => Len(seed_designs) = seed_idx)
    /\ []((phase = "Seeded" /\ population_size >= 1)
            => Len(seed_designs) = PyMin(10, population_size))

(* seed generation is over with two seeds, the first of them heuristic *)
C22_Witness ==
    /\ phase = "Seeded"
    /\ Len(seed_designs) = 2
    /\ seed_designs[1].how = "heuristic"

----------------------------------------------------------------------------
(* Constraint wiring *)

(* the weight of a modifier for an objective, 0 where the map has no entry *)
Weight(mod, o) ==
    IF mod \in DOMAIN weights_map /\ o \in DOMAIN weights_map[mod]
    THEN weights_map[mod][o]
    ELSE 0

ComparisonOperators == {<<"<", "=">>, <<">", "=">>, <<"<">>, <<">">>}

LessOperators == {<<"<", "=">>, <<"<">>}

(* a side of a constraint: it holds no comparison or equality sign *)
Plain(piece) == \A k \in 1..Len(piece) : piece[k] \notin {"<", ">", "="}

(* the two sides of a text of the shape 'LHS op RHS' *)
Sides(text, op) == split(replace_spaces(text), op)

HasShape(text, op) ==
    /\ Len(Sides(text, op)) = 2
    /\ Plain(Sides(text, op)[1])
    /\ Plain(Sides(text, op)[2])

(* the identifiers of a side that name a numeric variable of the problem *)
NumericIdentifiers(piece) ==
    {v \in {findall(piece)[k] : k \in 1..Len(findall(piece))} :
        \E i \in 1..Len(WiredVariables) :
            /\ WiredVariables[i].name = v
            /\ WiredVariables[i].type \in {"continuous", "discrete"}}

(* dec_v has a positive and inc_v a negative weight for the violation *)
FavoursDecrease(v, text) ==
    /\ Weight(ModifierName("dec_", v), ViolationName(text)) > 0
    /\ Weight(ModifierName("inc_", v), ViolationName(text)) < 0

(* inc_v has a positive and dec_v a negative weight for the violation *)
FavoursIncrease(v, text) ==
    /\ Weight(ModifierName("inc_", v), ViolationName(text)) > 0
    /\ Weight(ModifierName("dec_", v), ViolationName(text)) < 0

Constraint(i) == constraint_texts[i]

(* C23, as stated: in the final weight map, for every constraint
   'LHS op RHS' with op < or <=, every variable identifier of LHS has a
   positive dec_ and a negative inc_ weight for the violation objective and
   every identifier of RHS a positive inc_ and a negative dec_ weight; for >
   and >= the signs are mirrored. *)
C23_DirectionalWeights ==
    wiring = "Wired" =>
        \A i \in 1..Len(constraint_texts), op \in ComparisonOperators :
            HasShape(Constraint(i), op) =>
                /\ \A v \in NumericIdentifiers(Sides(Constraint(i), op)[1]) :
                      IF op \in LessOperators
                      THEN FavoursDecrease(v, Constraint(i))
                      ELSE FavoursIncrease(v, Constraint(i))
                /\ \A v \in NumericIdentifiers(Sides(Constraint(i), op)[2]) :
                      IF op \in LessOperators
                      THEN FavoursIncrease(v, Constraint(i))
                      ELSE FavoursDecrease(v, Constraint(i))

(* C23, amended: the signs of LHS hold for the identifiers found in LHS only;
   an identifier found in RHS, whether or not it is also found in LHS, has
   the signs of RHS. *)
C23_DirectionalWeightsLastSide ==
    wiring = "Wired" =>
        \A i \in 1..Len(constraint_texts), op \in ComparisonOperators :
            HasShape(Constraint(i), op) =>
                /\ \A v \in NumericIdentifiers(Sides(Constraint(i), op)[1])
                              \ NumericIdentifiers(Sides(Constraint(i), op)[2]) :
                      IF op \in LessOperators
                      THEN FavoursDecrease(v, Constraint(i))
                      ELSE FavoursIncrease(v, Constraint(i))
                /\ \A v \in NumericIdentifiers(Sides(Constraint(i), op)[2]) :
                      IF op \in LessOperators
                      THEN FavoursIncrease(v, Constraint(i))
                      ELSE FavoursDecrease(v, Constraint(i))

(* the weights are connected for a constraint with one identifier on both
   sides and another on one side, and for a constraint with > or >= *)
C23_Witness ==
    /\ wiring = "Wired"
    /\ \E i \in 1..Len(constraint_texts), op \in ComparisonOperators :
          /\ HasShape(Constraint(i), op)
          /\ NumericIdentifiers(Sides(Constraint(i), op)[1])
                \cap NumericIdentifiers(Sides(Constraint(i), op)[2]) # {}
          /\ NumericIdentifiers(Sides(Constraint(i), op)[2])
                \ NumericIdentifiers(Sides(Constraint(i), op)[1]) # {}
    /\ \E i \in 1..Len(constraint_texts), op \in ComparisonOperators \ LessOperators :
          /\ HasShape(Constraint(i), op)
          /\ NumericIdentifiers(Sides(Constraint(i), op)[1]) # {}

(* a side that is a sum of numeric variables and numbers *)
IdentifierSum(piece) ==
    /\ \A k \in 1..Len(piece) : piece[k] \in IdentifierPart \cup {"+"}
    /\ \A k \in 1..Len(findall(piece)) : findall(piece)[k] \in NumericIdentifiers(piece)

(* one comparison between two sums of numeric variables and numbers *)
SimpleConstraint(text) ==
    \E op \in ComparisonOperators :
        /\ HasShape(text, op)
        /\ IdentifierSum(Sides(text, op)[1])
        /\ IdentifierSum(Sides(text, op)[2])

(* the violation objective of the constraint is registered with weight 10 *)
ViolationRegistered(text) ==
    \E k \in 1..Len(objective_function) :
        objective_function[k] = [name |-> ViolationName(text), weight |-> 10]

(* C24: whatever the shape of a constraint expression, the analysis never
   raises, the constraint's violation objective is registered with weight
   10, and an expression that is not a comparison of simple identifier sums
   contributes no directional weight: no modifier has a weight for its
   violation objective other than the baseline 0.1. *)
C24_EveryConstraintRegistered ==
    /\ wiring # "Raised"
    /\ wiring = "Wired" =>
          \A i \in 1..Len(constraint_texts) :
              /\ ViolationRegistered(Constraint(i))
              /\ ~SimpleConstraint(Constraint(i)) =>
                    \A mod \in DOMAIN weights_map :
                        Weight(mod, ViolationName(Constraint(i))) = 1

(* C25: in the weight map handed to the optimizer every registered modifier
   has an objective of strictly positive weight. *)
C25_EveryModifierHasPositiveWeight ==
    wiring = "Wired" =>
        \A mod \in registered_modifiers :
            \E o \in {objective_function[k].name : k \in 1..Len(objective_function)} :
                Weight(mod, o) > 0

----------------------------------------------------------------------------
(* Directions and domains of the modifiers *)

Numeric == variable_config.type \in {"continuous", "discrete"}

InputWithinBounds ==
    /\ Bound(applied.input)
    /\ variable_config.min <= InputValue
    /\ InputValue <= variable_config.max

(* C26: with the gaussian or the uniform strategy on a numeric variable whose
   value is within its bounds, a modifier of direction 'increase' never
   returns a value below its input and one of direction 'decrease' never a
   value above it; and with the uniform strategy the value before clamping is
   at most step_size away from the input, whatever the direction. *)
C26_StepFollowsDirection ==
    (/\ applied.called
     /\ strategy.type \in {"gaussian", "uniform"}
     /\ Numeric
     /\ InputWithinBounds)
    => /\ direction = "increase" => OutputValue >= InputValue
       /\ direction = "decrease" => OutputValue <= InputValue
       /\ strategy.type = "uniform" =>
             \A r \in Draws(strategy, variable_config, direction) :
                 Abs(new_value_of(strategy, variable_config, direction, InputValue, r)
                     - InputValue) <= strategy.stepSize

(* what C26 says, for continuous variables and for discrete variables whose
   value is an integer *)
C26_StepFollowsDirectionUnrounded ==
    (/\ applied.called
     /\ strategy.type \in {"gaussian", "uniform"}
     /\ Numeric
     /\ InputWithinBounds
     /\ variable_config.type = "discrete" => IsInteger(InputValue))
    => /\ direction = "increase" => OutputValue >= InputValue
       /\ direction = "decrease" => OutputValue <= InputValue

(* C27: for a numeric variable and any strategy type, the modifier registered
   with direction 'increase' (inc_v) never returns a value lower than its
   input and the one registered with direction 'decrease' (dec_v) never a
   higher one; stated for inputs within the variable's bounds. *)
C27_IncDecNeverReverse ==
    (/\ applied.called
     /\ Numeric
     /\ InputWithinBounds)
    => /\ direction = "increase" => OutputValue >= InputValue
       /\ direction = "decrease" => OutputValue <= InputValue

(* what C27 says, for neighbor_step on integer values *)
C27_NeighborStepNeverReverses ==
    (/\ applied.called
     /\ Numeric
     /\ strategy.type = "neighbor_step"
     /\ InputWithinBounds
     /\ IsInteger(InputValue))
    => /\ direction = "increase" => OutputValue >= InputValue
       /\ direction = "decrease" => OutputValue <= InputValue

(* C28: every design of the run, the seed designs and those the modifiers
   make of them, gives a discrete variable an integer value and a numeric
   variable a value within [min, max]. *)
C28_DesignsWithinDomain ==
    (Numeric /\ Bound(design))
    => /\ variable_config.min <= ValueIn(design, variable_name)
       /\ ValueIn(design, variable_name) <= variable_config.max
       /\ variable_config.type = "discrete" => IsInteger(ValueIn(design, variable_name))

(* what C28 says of the bounds, for continuous variables *)
C28_ContinuousWithinBounds ==
    (variable_config.type = "continuous" /\ Bound(design))
    => /\ variable_config.min <= ValueIn(design, variable_name)
       /\ ValueIn(design, variable_name) <= variable_config.max

----------------------------------------------------------------------------
(* The batch endpoint *)

(* the i-th expression of the request fails *)
Fails(i) == ~safe_eval(request.expressions[i], request.variables).ok

(* the result the same expression gets in a request of its own *)
Alone(i) ==
    EvaluationResult(request.expressions[i],
                     safe_eval(request.expressions[i], request.variables))

HasValue(res) == res.value # NoneV

HasError(res) == ~res.error.null

(* the response holds one result for each expression, in the order of the
   request; a failing expression has a null value and an error, and every
   result is what its expression gets alone *)
ResultPerExpression ==
    response.sent =>
        /\ Len(response.results) = Len(request.expressions)
        /\ \A i \in 1..Len(request.expressions) :
              /\ response.results[i].expression = request.expressions[i]
              /\ response.results[i] = Alone(i)
              /\ Fails(i) => (~HasValue(response.results[i])
                                /\ HasError(response.results[i]))

(* C29: the batch endpoint returns exactly one result for each requested
   expression, in the order of the request; a failing expression yields a null
   value and a non-null error and leaves the other results as they are; and
   every result has exactly one of value and error non-null. *)
C29_BatchResults ==
    /\ ResultPerExpression
    /\ response.sent =>
          \A i \in 1..Len(response.results) :
              HasValue(response.results[i]) # HasError(response.results[i])

----------------------------------------------------------------------------
(* Session status *)

(* the request just handled was stored for a session that exists *)
Stored == last_call'.status_code = 200

SessionBefore == sessions[last_call'.session_id]
SessionAfter == sessions'[last_call'.session_id]

(* C30: after a message of sender 'user' in a session of mode
   'experimental' the status is 'waiting' and readyToFormalize is false;
   after a message of sender 'researcher' or 'ai' the status is 'active' and
   readyToFormalize has not gone from true to false; a message of any other
   sender and mode leaves both as they were; and add_message for a session
   that does not exist ends with 404 and stores no message. *)
C30_StatusFollowsSender ==
    [][/\ (Stored /\ last_call'.sender = "user" /\ SessionBefore.mode = "experimental")
           => (SessionAfter.status = "waiting" /\ SessionAfter.readyToFormalize = FALSE)
       /\ (Stored /\ last_call'.sender \in {"researcher", "ai"})
           => (SessionAfter.status = "active"
               /\ (SessionBefore.readyToFormalize => SessionAfter.readyToFormalize))
       /\ (/\ Stored
           /\ last_call'.sender \notin {"researcher", "ai"}
           /\ ~(last_call'.sender = "user" /\ SessionBefore.mode = "experimental"))
           => (SessionAfter.status = SessionBefore.status
               /\ SessionAfter.readyToFormalize = SessionBefore.readyToFormalize)
       /\ last_call'.session_id \notin DOMAIN sessions
           => (last_call'.status_code = 404 /\ messages' = messages)]_vars

(* a researcher's message without a readiness signal was stored in a session
   that was waiting and ready to formalize: the session is active and ready *)
C30_Witness ==
    /\ last_call.status_code = 200
    /\ last_call.sender = "researcher"
    /\ ~detect_formalization_readiness(last_call.content)
    /\ Len(messages) = 2
    /\ messages[1].sender = "ai"
    /\ detect_formalization_readiness(messages[1].content)
    /\ sessions["s1"].status = "active"
    /\ sessions["s1"].readyToFormalize

====
